---- MODULE Spec2Model ----
(***************************************************************************)
(* PlayLink back end: bookings, conflict guard, checkout, payment          *)
(* confirmation, split ledger (wallet) and cancellation/refund.            *)
(*                                                                         *)
(* Money is in units of 0.0001 LKR (Cent is 0.01 LKR).  Time is in hours    *)
(* since midnight of day 0; the clock `now` only visits the instants of    *)
(* NowValues.  The store is one record `db`; a handler's transaction is    *)
(* applied to a copy and installed at its commit step, reads through the   *)
(* connection pool see the committed `db`.                                 *)
(***************************************************************************)
EXTENDS Integers, Sequences, FiniteSets, TLC

VARIABLES db, sessions, now, policy, req

vars == <<db, sessions, now, policy, req>>

----------------------------------------------------------------------------
(* Bounds of the model *)

NumProcs == 2
MaxBookings == 2
MaxSessions == 1
MaxAdjust == 2

Procs == 1..NumProcs

----------------------------------------------------------------------------
(* The world: users, the venue, the instants *)

Players == {"p1", "p2"}
Guests == {"g1"}
Owner == "o1"
Users == Players \cup {Owner}
Courts == {1, 2}
NoCourt == 0

NowValues == {0, 9, 23, 33}
Starts == {33, 35}
Durs == {2, 3}

Cent == 100
LKR == 100 * Cent

Venue == [venue_id |-> 1, owner_id |-> Owner, price_per_hour |-> 2000 * LKR,
          cancellation_policy_id |-> 1]

(* the row of cancellation_policies the venue names, and the venue's custom *)
(* refund columns (0 for NULL)                                              *)
NoCustom == 0

PolicyRow(refundPercentage, hoursBeforeStart) ==
  [refund_percentage |-> refundPercentage, hours_before_start |-> hoursBeforeStart,
   custom_refund_percentage |-> NoCustom, custom_hours_before_start |-> NoCustom]

PolicyOptions == {PolicyRow(50, 24), PolicyRow(0, 10), PolicyRow(100, 12)}

InitialWallets == [p1 |-> 6000 * LKR, p2 |-> 4000 * LKR]

AdjustAmounts == {0 - 2 * Cent, 0 - Cent, Cent, 2 * Cent}

Epsilon == Cent

ActiveStatusesWithoutBlocked == {"CONFIRMED", "PENDING"}

ActiveStatuses == {"CONFIRMED", "PENDING", "BLOCKED"}

----------------------------------------------------------------------------
(* Helpers over sequences *)

(* x * pct / 100, exact for the amounts of the model, without overflow *)
Percent(x, pct) == (x \div 100) * pct + ((x % 100) * pct) \div 100

RECURSIVE SumShares(_)
SumShares(s) == IF s = <<>> THEN 0 ELSE Head(s).share_amount + SumShares(Tail(s))

RECURSIVE SumAmounts(_)
SumAmounts(s) == IF s = <<>> THEN 0 ELSE Head(s).amount + SumAmounts(Tail(s))

RECURSIVE SetToSeq(_)
SetToSeq(S) == IF S = {} THEN <<>>
               ELSE LET x == CHOOSE y \in S : TRUE IN <<x>> \o SetToSeq(S \ {x})

SelectIdx(s, Test(_)) == {i \in 1..Len(s) : Test(s[i])}

Fail(d, msg) == [d EXCEPT !.err = msg]

(* venue_pricing_rules of the venue: multipliers are in hundredths *)
PricingRules == {[start_hour |-> 18, end_hour |-> 22, multiplier |-> 150, days_of_week |-> {}]}

EmptyDb == [venues |-> {Venue.venue_id}, pricing_rules |-> PricingRules,
            bookings |-> <<>>, participants |-> <<>>,
            payments |-> <<>>, wallets |-> <<>>, wtx |-> <<>>, err |-> ""]

----------------------------------------------------------------------------
(* WalletRepository *)

GetWalletBalance(d, userId) ==
  IF userId \in DOMAIN d.wallets THEN d.wallets[userId] ELSE 0

UpdateWalletBalanceUnchecked(d, userId, amount) ==
  IF d.err # "" THEN d
  ELSE IF userId \notin DOMAIN d.wallets
       THEN [d EXCEPT !.wallets = (userId :> amount) @@ d.wallets]
       ELSE [d EXCEPT !.wallets[userId] = @ + amount]

UpdateWalletBalance(d, userId, amount) ==
  IF d.err # "" THEN d
  ELSE IF userId \notin DOMAIN d.wallets
       THEN IF amount < 0 THEN Fail(d, "Insufficient funds for new wallet")
            ELSE [d EXCEPT !.wallets = (userId :> amount) @@ d.wallets]
       ELSE IF amount < 0 /\ d.wallets[userId] + amount < -Epsilon
            THEN Fail(d, "Insufficient funds")
            ELSE [d EXCEPT !.wallets[userId] = @ + amount]

CreateTransaction(d, userId, amount, type, referenceType, referenceId) ==
  IF d.err # "" THEN d
  ELSE IF userId \notin DOMAIN d.wallets THEN Fail(d, "Wallet not found")
  ELSE [d EXCEPT !.wtx = Append(@, [user |-> userId, amount |-> amount,
                                    direction |-> type,
                                    transaction_type |-> referenceType,
                                    booking_id |-> referenceId])]

----------------------------------------------------------------------------
(* BookingRepository *)

OverlapsOrTouches(b, startDateTime, endDateTime) ==
  \/ (b.booking_start <= endDateTime /\ b.booking_end >= startDateTime)
  \/ (b.booking_start >= startDateTime /\ b.booking_start < endDateTime)
  \/ (b.booking_end > startDateTime /\ b.booking_end <= endDateTime)

Overlaps(b, startDateTime, endDateTime) ==
  \/ (b.booking_start < endDateTime /\ b.booking_end > startDateTime)
  \/ (b.booking_start >= startDateTime /\ b.booking_start < endDateTime)
  \/ (b.booking_end > startDateTime /\ b.booking_end <= endDateTime)

HasBookingConflict(d, venueId, startDateTime, endDateTime) ==
  \E i \in 1..Len(d.bookings) :
     /\ d.bookings[i].venue_id = venueId
     /\ d.bookings[i].status \in ActiveStatuses
     /\ Overlaps(d.bookings[i], startDateTime, endDateTime)

CreateBooking(d, userId, bookingStart, bookingEnd, totalAmount, customRefundPercentage, customHoursBeforeStart, pointsUsed, paidAmount) ==
  IF d.err # "" THEN d
  ELSE [d EXCEPT !.bookings = Append(@,
          [venue_id |-> Venue.venue_id, court_id |-> NoCourt, created_by |-> userId,
           booking_start |-> bookingStart, booking_end |-> bookingEnd,
           total_amount |-> totalAmount, status |-> "PENDING",
           cancellation_policy_id |-> Venue.cancellation_policy_id,
           custom_refund_percentage |-> customRefundPercentage,
           custom_hours_before_start |-> customHoursBeforeStart,
           points_used |-> pointsUsed, paid_amount |-> paidAmount,
           cancelled |-> FALSE])]

NullUser == "NULL"

AddBookingParticipant(d, bookingId, userId, shareAmount, isInitiator) ==
  IF d.err # "" THEN d
  ELSE [d EXCEPT !.participants = Append(@,
          [booking_id |-> bookingId, user_id |-> userId, share_amount |-> shareAmount,
           is_initiator |-> isInitiator, payment_status |-> "PENDING"])]

CreatePayment(d, bookingId, payerId, amount, providerReference) ==
  IF d.err # "" THEN d
  ELSE [d EXCEPT !.payments = Append(@,
          [booking_id |-> bookingId, payer_id |-> payerId, amount |-> amount,
           status |-> "PENDING", provider_reference |-> providerReference])]

UpdatePaymentStatus(d, providerReference, status) ==
  IF d.err # "" THEN d
  ELSE [d EXCEPT !.payments =
          [i \in 1..Len(@) |->
             IF @[i].provider_reference = providerReference
             THEN [@[i] EXCEPT !.status = status] ELSE @[i]]]

UpdateBookingStatus(d, bookingId, status) ==
  IF d.err # "" THEN d
  ELSE [d EXCEPT !.bookings[bookingId].status = status]

UpdateParticipantsPaymentStatus(d, bookingId, status) ==
  IF d.err # "" THEN d
  ELSE [d EXCEPT !.participants =
          [i \in 1..Len(@) |->
             IF @[i].booking_id = bookingId
             THEN [@[i] EXCEPT !.payment_status = status] ELSE @[i]]]

GetBookingByWrongReference(d, providerRef) ==
  LET hits == {i \in 1..Len(d.payments) : d.payments[i].provider_reference = 0 - providerRef}
  IN IF hits = {} THEN 0
     ELSE d.payments[CHOOSE i \in hits : \A j \in hits : i <= j].booking_id

GetBookingByPaymentReference(d, providerRef) ==
  LET hits == {i \in 1..Len(d.payments) : d.payments[i].provider_reference = providerRef}
  IN IF hits = {} THEN 0
     ELSE d.payments[CHOOSE i \in hits : \A j \in hits : i <= j].booking_id

GetBookingParticipants(d, bookingId) ==
  SelectSeq(d.participants, LAMBDA r : r.booking_id = bookingId)

----------------------------------------------------------------------------
(* utils/dateUtil: a time of day is <<hours, minutes>> *)

IsValid15MinInterval(t) == t[2] \in {0, 15, 30, 45}

IsBeforeWindowEnd(t) == t[1] * 60 + t[2] < 22 * 60

IsWithinBookingWindow(t) ==
  LET totalMinutes == t[1] * 60 + t[2]
  IN totalMinutes >= 7 * 60 /\ totalMinutes < 22 * 60

DoesBookingFitInWindow(t, durationHours) ==
  /\ durationHours # 0
  /\ t[1] * 60 + t[2] + durationHours * 60 <= 22 * 60

GetTimeValidationError(t, durationHours) ==
  IF ~IsValid15MinInterval(t) THEN "Times must be in 15-minute intervals"
  ELSE IF ~IsWithinBookingWindow(t) THEN "Booking must start between 7:00 AM and 10:00 PM"
  ELSE IF ~DoesBookingFitInWindow(t, durationHours) THEN "Booking must end by 10:00 PM"
  ELSE IF durationHours < 1 THEN "Booking must be at least 1 hour"
  ELSE IF durationHours > 15 THEN "Booking cannot exceed 15 hours"
  ELSE ""

TimeOfDay(instant) == <<instant % 24, 0>>

----------------------------------------------------------------------------
(* VenueService.calculateDynamicPrice: multipliers are in hundredths *)

WeekDay(instant) == (instant \div 24) % 7

CalculateDynamicPrice(venue, instant, hours) ==
  LET total == venue.price_per_hour * hours
      bookingDay == WeekDay(instant)
      bookingStartHour == instant % 24
      applicable == {r \in db.pricing_rules :
                       /\ (r.days_of_week = {} \/ bookingDay \in r.days_of_week)
                       /\ bookingStartHour >= r.start_hour
                       /\ bookingStartHour < r.end_hour
                       /\ r.multiplier > 100}
      maxMultiplier == IF applicable = {} THEN 100
                       ELSE CHOOSE m \in {r.multiplier : r \in applicable} :
                              \A r \in applicable : r.multiplier <= m
  IN Percent(total, maxMultiplier)

----------------------------------------------------------------------------
(* SplitPaymentService *)

RoundHalfUp(n, d) == (2 * n + d) \div (2 * d)

CalculateShares(totalAmount, participantCount) ==
  IF participantCount <= 0 THEN totalAmount
  ELSE LET totalPeople == participantCount + 1
       IN RoundHalfUp(totalAmount, totalPeople * Cent) * Cent

RECURSIVE AddInvitees(_, _, _, _)
AddInvitees(d, bookingId, rows, shareAmount) ==
  IF rows = <<>> THEN d
  ELSE AddInvitees(AddBookingParticipant(d, bookingId, Head(rows), shareAmount, 0),
                   bookingId, Tail(rows), shareAmount)

SetupBookingSplitsWithoutGuests(d, bookingId, initiatorId, inviteeEmails, shareAmount) ==
  IF d.err # "" \/ inviteeEmails = {} THEN d
  ELSE LET existingUsers == SetToSeq((inviteeEmails \cap Users) \ {initiatorId})
           d1 == AddInvitees(d, bookingId, existingUsers, shareAmount)
       IN [d1 EXCEPT !.participants =
             [i \in 1..Len(@) |->
                IF @[i].booking_id = bookingId /\ @[i].user_id = initiatorId
                THEN [@[i] EXCEPT !.share_amount = shareAmount] ELSE @[i]]]

SetupBookingSplits(d, bookingId, initiatorId, inviteeEmails, shareAmount) ==
  IF d.err # "" \/ inviteeEmails = {} THEN d
  ELSE LET existingUsers == SetToSeq((inviteeEmails \cap Users) \ {initiatorId})
           guestEmails == SetToSeq(inviteeEmails \ Users)
           d1 == AddInvitees(d, bookingId, existingUsers, shareAmount)
           d2 == AddInvitees(d1, bookingId, [i \in 1..Len(guestEmails) |-> NullUser],
                             shareAmount)
       IN [d2 EXCEPT !.participants =
             [i \in 1..Len(@) |->
                IF @[i].booking_id = bookingId /\ @[i].user_id = initiatorId
                THEN [@[i] EXCEPT !.share_amount = shareAmount] ELSE @[i]]]

ExecuteReimbursement(d, participantUserId, bookingId, amountPaid) ==
  LET inits == {i \in 1..Len(d.participants) :
                  /\ d.participants[i].booking_id = bookingId
                  /\ d.participants[i].is_initiator = 1}
  IN IF inits = {} THEN Fail(d, "Booking initiator not found")
     ELSE LET initiatorId == d.participants[CHOOSE i \in inits : \A j \in inits : i <= j].user_id
              d1 == [d EXCEPT !.participants =
                       [i \in 1..Len(@) |->
                          IF @[i].booking_id = bookingId /\ @[i].user_id = participantUserId
                          THEN [@[i] EXCEPT !.payment_status = "PAID"] ELSE @[i]]]
              d2 == UpdateWalletBalance(d1, initiatorId, amountPaid)
          IN CreateTransaction(d2, initiatorId, amountPaid, "CREDIT",
                               "BOOKING_REIMBURSEMENT", bookingId)

----------------------------------------------------------------------------
(* BookingService.findAvailableCourt: the lowest court of the venue that has *)
(* no conflict for the interval, NoCourt when there is none                  *)

CourtConflict(d, venueId, courtId, startDateTime, endDateTime) ==
  \E i \in 1..Len(d.bookings) :
     /\ d.bookings[i].venue_id = venueId
     /\ d.bookings[i].status \in ActiveStatuses
     /\ (d.bookings[i].court_id = NoCourt \/ d.bookings[i].court_id = courtId)
     /\ d.bookings[i].booking_start < endDateTime
     /\ d.bookings[i].booking_end > startDateTime

FindAvailableCourt(d, venueId, startDateTime, endDateTime) ==
  LET free == {c \in Courts : ~CourtConflict(d, venueId, c, startDateTime, endDateTime)}
  IN IF free = {} THEN NoCourt ELSE CHOOSE c \in free : \A x \in free : c <= x

----------------------------------------------------------------------------
(* Request handlers.  req[p] is the handler worker p is running: its      *)
(* position pc, its locals, and the response of the last finished one.    *)

IdleReq == [op |-> "none", pc |-> "idle", user |-> "", b |-> 0, start |-> 0,
            minutes |-> 0, end |-> 0, total |-> 0, share |-> 0, invites |-> {},
            sess |-> 0, hrs |-> 0, pct |-> 0, refund |-> 0, kind |-> "",
            attempts |-> 0, result |-> ""]

Free(p) == req[p].pc \in {"idle", "done"}

(* a new request is taken by the lowest free worker *)
Ready(p) == Free(p) /\ \A q \in Procs : q < p => ~Free(q)

Admitting(q) == req[q].pc \in {"co_check", "co_write", "cf_check", "cf_write", "wk_write"}

RoomForBooking ==
  Len(db.bookings) + Cardinality({q \in Procs : Admitting(q)}) < MaxBookings

Respond(p, op, userId, result) ==
  req' = [req EXCEPT ![p] = [IdleReq EXCEPT !.op = op, !.pc = "done",
                                            !.user = userId, !.result = result]]

PointsRef(bookingId) == 0 - bookingId

(* a checkout that stores a PENDING booking, its participant and its payment  *)
(* when it creates the provider's session                                      *)
CreateCheckoutSessionWithPendingRows(p, userId, start, minutes, hours, invites, useWallet) ==
  /\ Ready(p)
  /\ RoomForBooking
  /\ Len(sessions) < MaxSessions
  /\ LET totalAmount == CalculateDynamicPrice(Venue, start, hours)
         d1 == CreateBooking(db, userId, start, start + hours, totalAmount,
                             NoCustom, NoCustom, 0, totalAmount)
         d2 == AddBookingParticipant(d1, Len(d1.bookings), userId, totalAmount, 1)
     IN /\ db' = CreatePayment(d2, Len(d1.bookings), userId, totalAmount,
                               Len(sessions) + 1)
        /\ sessions' = Append(sessions,
               [type |-> "BOOKING", paid |-> FALSE, user_id |-> userId,
                booking_id |-> Len(d1.bookings), booking_start |-> start,
                booking_end |-> start + hours, total_amount |-> totalAmount,
                invites |-> invites, share_amount |-> totalAmount,
                points_to_deduct |-> 0, owner_id |-> Venue.owner_id,
                custom_refund_percentage |-> NoCustom,
                custom_hours_before_start |-> NoCustom,
                amount_total |-> totalAmount])
  /\ req' = [req EXCEPT ![p] =
               [IdleReq EXCEPT !.op = "checkout", !.pc = "done", !.user = userId,
                  !.start = start, !.minutes = minutes, !.hrs = hours,
                  !.sess = Len(sessions) + 1, !.result = "checkoutUrl"]]
  /\ UNCHANGED <<now, policy>>

(* createCheckoutSession up to the funding branch; external funding ends here. *)
(* The request's time is `minutes` past the hour of `start`; a request that    *)
(* passes the validation is on the hour in every specification of the model.   *)
CreateCheckoutSession(p, userId, start, minutes, hours, invites, useWallet) ==
  /\ Ready(p)
  /\ LET end == start + hours
         time == <<start % 24, minutes>>
         totalAmount == CalculateDynamicPrice(Venue, start, hours)
         shareAmount == CalculateShares(totalAmount, Cardinality(invites))
         walletBalance == GetWalletBalance(db, userId)
         pointsToDeduct == IF useWallet THEN walletBalance ELSE 0
         R(result) == [IdleReq EXCEPT !.op = "checkout", !.pc = "done",
                         !.user = userId, !.start = start, !.minutes = minutes,
                         !.hrs = hours, !.result = result]
     IN IF hours = 0
        THEN req' = [req EXCEPT ![p] = R("missing")] /\ UNCHANGED sessions
        ELSE IF GetTimeValidationError(time, hours) # ""
        THEN req' = [req EXCEPT ![p] = R("invalid")] /\ UNCHANGED sessions
        ELSE IF Venue.venue_id \notin db.venues
        THEN req' = [req EXCEPT ![p] = R("venue_not_found")] /\ UNCHANGED sessions
        ELSE IF start * 60 + minutes <= now * 60
        THEN req' = [req EXCEPT ![p] = R("invalid")] /\ UNCHANGED sessions
        ELSE IF FindAvailableCourt(db, Venue.venue_id, start, end) = NoCourt
        THEN req' = [req EXCEPT ![p] = R("unavailable")] /\ UNCHANGED sessions
        ELSE IF useWallet /\ walletBalance >= totalAmount
        THEN /\ RoomForBooking
             /\ req' = [req EXCEPT ![p] =
                          [R("") EXCEPT !.pc = "co_check", !.end = end,
                             !.total = totalAmount, !.share = shareAmount,
                             !.invites = invites]]
             /\ UNCHANGED sessions
        ELSE /\ Len(sessions) < MaxSessions
             /\ sessions' = Append(sessions,
                    [type |-> "BOOKING", paid |-> FALSE, user_id |-> userId,
                     booking_id |-> 0, booking_start |-> start, booking_end |-> end,
                     total_amount |-> totalAmount, invites |-> invites,
                     share_amount |-> shareAmount, points_to_deduct |-> pointsToDeduct,
                     owner_id |-> Venue.owner_id,
                     custom_refund_percentage |-> policy.custom_refund_percentage,
                     custom_hours_before_start |-> policy.custom_hours_before_start,
                     amount_total |-> totalAmount - pointsToDeduct])
             /\ req' = [req EXCEPT ![p] =
                          [R("checkoutUrl") EXCEPT !.sess = Len(sessions) + 1]]
  /\ UNCHANGED <<db, now, policy>>

(* the conflict re-check of the ledger-funded branch *)
CheckoutConflictCheck(p) ==
  /\ req[p].pc = "co_check"
  /\ IF HasBookingConflict(db, Venue.venue_id, req[p].start, req[p].end)
     THEN Respond(p, "checkout", req[p].user, "unavailable")
     ELSE req' = [req EXCEPT ![p].pc = "co_write", ![p].attempts = @ + 1]
  /\ UNCHANGED <<db, sessions, now, policy>>

LedgerCheckoutTxn(d, r, sameMs) ==
  LET d1 == UpdateWalletBalance(d, r.user, 0 - r.total)
      d2 == CreateTransaction(d1, r.user, 0 - r.total, "DEBIT", "BOOKING_PAYMENT", 0)
      d3 == CreateBooking(d2, r.user, r.start, r.end, r.total,
                          policy.custom_refund_percentage,
                          policy.custom_hours_before_start, r.total, 0)
      bookingId == Len(d3.bookings)
      d4 == AddBookingParticipant(d3, bookingId, r.user, r.share, 1)
      d5 == UpdateParticipantsPaymentStatus(d4, bookingId, "PAID")
      d6 == SetupBookingSplits(d5, bookingId, r.user, r.invites, r.share)
      d7 == UpdateBookingStatus(d6, bookingId, "CONFIRMED")
      d8 == CreatePayment(d7, bookingId, r.user, r.total, PointsRef(bookingId))
      d9 == IF sameMs THEN UpdatePaymentStatus(d8, PointsRef(bookingId), "SUCCEEDED") ELSE d8
      d10 == UpdateWalletBalance(d9, Venue.owner_id, r.total)
  IN CreateTransaction(d10, Venue.owner_id, r.total, "CREDIT", "BOOKING_PAYMENT", bookingId)

(* the writes of the ledger-funded branch and their commit (or rollback) *)
CheckoutCommit(p) ==
  /\ req[p].pc = "co_write"
  /\ \E sameMs \in BOOLEAN :
       LET d == LedgerCheckoutTxn(db, req[p], sameMs)
       IN IF d.err # ""
          THEN /\ Respond(p, "checkout", req[p].user, "failed")
               /\ UNCHANGED db
          ELSE /\ db' = d
               /\ req' = [req EXCEPT ![p] =
                            [IdleReq EXCEPT !.op = "checkout", !.pc = "done",
                               !.user = req[p].user, !.b = Len(d.bookings),
                               !.result = "confirmed"]]
  /\ UNCHANGED <<sessions, now, policy>>

(* the store reports a lock timeout or a deadlock to a statement of the        *)
(* ledger-funded branch: the catch rolls back and answers with the message;    *)
(* attempts is the number of times the request ran its re-check                *)
CheckoutStoreError(p) ==
  /\ req[p].pc = "co_write"
  /\ req' = [req EXCEPT ![p].pc = "done", ![p].result = "store_error"]
  /\ UNCHANGED <<db, sessions, now, policy>>

(* the customer pays the provider's session *)
StripePay(sid) ==
  /\ sid \in 1..Len(sessions)
  /\ ~sessions[sid].paid
  /\ sessions' = [sessions EXCEPT ![sid].paid = TRUE]
  /\ UNCHANGED <<db, now, policy, req>>

(* handleCheckoutSuccess up to the branch on the session's type *)
HandleCheckoutSuccess(p, userId, sid) ==
  /\ Ready(p)
  /\ sid \in 1..Len(sessions)
  /\ LET existingBooking == GetBookingByPaymentReference(db, sid)
     IN IF existingBooking # 0
        THEN req' = [req EXCEPT ![p] =
                       [IdleReq EXCEPT !.op = "confirm", !.pc = "done", !.user = userId,
                          !.sess = sid, !.b = existingBooking, !.result = "existing"]]
        ELSE IF ~sessions[sid].paid
        THEN req' = [req EXCEPT ![p] =
                       [IdleReq EXCEPT !.op = "confirm", !.pc = "done", !.user = userId,
                          !.sess = sid, !.result = "not_paid"]]
        ELSE IF sessions[sid].type = "SHARE_PAYMENT"
        THEN req' = [req EXCEPT ![p] =
                       [IdleReq EXCEPT !.op = "confirm", !.pc = "cf_share",
                          !.user = userId, !.sess = sid]]
        ELSE /\ RoomForBooking
             /\ req' = [req EXCEPT ![p] =
                          [IdleReq EXCEPT !.op = "confirm", !.pc = "cf_check",
                             !.user = userId, !.sess = sid]]
  /\ UNCHANGED <<db, sessions, now, policy>>

ConfirmWithoutConflictCheck(p) ==
  /\ req[p].pc = "cf_check"
  /\ req' = [req EXCEPT ![p].pc = "cf_write"]
  /\ UNCHANGED <<db, sessions, now, policy>>

(* the conflict check of the confirmation *)
ConfirmConflictCheck(p) ==
  /\ req[p].pc = "cf_check"
  /\ LET m == sessions[req[p].sess]
     IN IF HasBookingConflict(db, Venue.venue_id, m.booking_start, m.booking_end)
        THEN req' = [req EXCEPT ![p].pc = "done", ![p].result = "slot_taken"]
        ELSE req' = [req EXCEPT ![p].pc = "cf_write"]
  /\ UNCHANGED <<db, sessions, now, policy>>

ConfirmTxn(d, m, sid) ==
  LET points == m.points_to_deduct
      d1 == CreateBooking(d, m.user_id, m.booking_start, m.booking_end, m.total_amount,
                          m.custom_refund_percentage, m.custom_hours_before_start,
                          points, m.total_amount - points)
      bookingId == Len(d1.bookings)
      d2 == AddBookingParticipant(d1, bookingId, m.user_id, m.share_amount, 1)
      d3 == IF points > 0 THEN UpdateWalletBalance(d2, m.user_id, 0 - points) ELSE d2
      d4 == IF points > 0
            THEN CreateTransaction(d3, m.user_id, 0 - points, "DEBIT", "BOOKING_PAYMENT",
                                   bookingId)
            ELSE d3
      d5 == SetupBookingSplits(d4, bookingId, m.user_id, m.invites, m.share_amount)
      d6 == CreatePayment(d5, bookingId, m.user_id, m.amount_total, sid)
      d7 == UpdateBookingStatus(d6, bookingId, "CONFIRMED")
      d8 == UpdatePaymentStatus(d7, sid, "SUCCEEDED")
      d9 == IF d8.err # "" THEN d8
            ELSE [d8 EXCEPT !.participants =
                    [i \in 1..Len(@) |->
                       IF @[i].booking_id = bookingId /\ @[i].is_initiator = 1
                       THEN [@[i] EXCEPT !.payment_status = "PAID"] ELSE @[i]]]
      d10 == UpdateWalletBalance(d9, m.owner_id, m.total_amount)
  IN CreateTransaction(d10, m.owner_id, m.total_amount, "CREDIT", "BOOKING_REVENUE",
                       bookingId)

(* the writes of the confirmation and their commit (or rollback) *)
ConfirmCommit(p) ==
  /\ req[p].pc = "cf_write"
  /\ LET d == ConfirmTxn(db, sessions[req[p].sess], req[p].sess)
     IN IF d.err # ""
        THEN /\ req' = [req EXCEPT ![p].pc = "done", ![p].result = "error"]
             /\ UNCHANGED db
        ELSE /\ db' = d
             /\ req' = [req EXCEPT ![p].pc = "done", ![p].b = Len(d.bookings),
                                    ![p].result = "confirmed"]
  /\ UNCHANGED <<sessions, now, policy>>

(* the share-payment branch: the reimbursement transaction *)
ConfirmShareReimburse(p) ==
  /\ req[p].pc = "cf_share"
  /\ LET m == sessions[req[p].sess]
         d == ExecuteReimbursement(db, m.user_id, m.booking_id, m.amount_total)
     IN IF d.err # ""
        THEN /\ req' = [req EXCEPT ![p].pc = "done", ![p].result = "error"]
             /\ UNCHANGED db
        ELSE /\ db' = d
             /\ req' = [req EXCEPT ![p].pc = "cf_sharepay"]
  /\ UNCHANGED <<sessions, now, policy>>

(* the share-payment branch: the payment row, written outside a transaction *)
ConfirmSharePayment(p) ==
  /\ req[p].pc = "cf_sharepay"
  /\ LET m == sessions[req[p].sess]
         d1 == CreatePayment(db, m.booking_id, m.user_id, m.amount_total, req[p].sess)
     IN db' = UpdatePaymentStatus(d1, req[p].sess, "SUCCEEDED")
  /\ req' = [req EXCEPT ![p].pc = "done", ![p].b = sessions[req[p].sess].booking_id,
                         ![p].result = "share_paid"]
  /\ UNCHANGED <<sessions, now, policy>>

(* createWalkInBooking: the availability checks *)
CreateWalkInBooking(p, userId, start, hours, type, withSport) ==
  /\ Ready(p)
  /\ LET end == start + hours
     IN IF withSport /\ FindAvailableCourt(db, Venue.venue_id, start, end) = NoCourt
        THEN Respond(p, "walkin", userId, "unavailable")
        ELSE IF HasBookingConflict(db, Venue.venue_id, start, end)
        THEN Respond(p, "walkin", userId, "unavailable")
        ELSE /\ RoomForBooking
             /\ req' = [req EXCEPT ![p] =
                          [IdleReq EXCEPT !.op = "walkin", !.pc = "wk_write",
                             !.user = userId, !.start = start, !.end = end,
                             !.kind = type]]
  /\ UNCHANGED <<db, sessions, now, policy>>

CreateBlock(d, userId, startTime, endTime) ==
  [d EXCEPT !.bookings = Append(@,
      [venue_id |-> Venue.venue_id, court_id |-> NoCourt, created_by |-> userId,
       booking_start |-> startTime, booking_end |-> endTime,
       total_amount |-> 0, status |-> "BLOCKED", cancellation_policy_id |-> 1,
       custom_refund_percentage |-> NoCustom, custom_hours_before_start |-> NoCustom,
       points_used |-> 0, paid_amount |-> 0, cancelled |-> FALSE])]

WalkInTxn(d, r) ==
  LET d1 == CreateBooking(d, r.user, r.start, r.end, 0, NoCustom, NoCustom, 0, 0)
      bookingId == Len(d1.bookings)
      d2 == UpdateBookingStatus(d1, bookingId, "CONFIRMED")
      d3 == AddBookingParticipant(d2, bookingId, r.user, 0, 1)
  IN UpdateParticipantsPaymentStatus(d3, bookingId, "PAID")

(* createWalkInBooking: the insert of the walk-in booking or of the block *)
WalkInWrite(p) ==
  /\ req[p].pc = "wk_write"
  /\ LET d == IF req[p].kind = "WALK_IN" THEN WalkInTxn(db, req[p])
              ELSE CreateBlock(db, req[p].user, req[p].start, req[p].end)
     IN /\ db' = d
        /\ req' = [req EXCEPT ![p] =
                     [IdleReq EXCEPT !.op = "walkin", !.pc = "done", !.user = req[p].user,
                        !.b = Len(d.bookings), !.result = "created"]]
  /\ UNCHANGED <<sessions, now, policy>>

----------------------------------------------------------------------------
(* BookingService.rescheduleBooking *)

GetBookingWithPolicy(d, pol, bookingId) ==
  [booking |-> d.bookings[bookingId], owner_id |-> Venue.owner_id,
   refund_percentage |-> pol.refund_percentage,
   hours_before_start |-> pol.hours_before_start]

(* the time checks of rescheduleBooking: the three helpers, called directly *)
RescheduleTimeError(t, hours) ==
  IF ~IsValid15MinInterval(t) THEN "Times must be in 15-minute intervals"
  ELSE IF ~IsWithinBookingWindow(t) THEN "Booking must start between 7:00 AM and 10:00 PM"
  ELSE IF ~DoesBookingFitInWindow(t, hours) THEN "Booking must end by 10:00 PM"
  ELSE ""

RescheduleBooking(p, userId, bookingId, newStart, hours) ==
  /\ Ready(p)
  /\ IF bookingId > Len(db.bookings)
     THEN Respond(p, "reschedule", userId, "not_found")
     ELSE LET booking == GetBookingWithPolicy(db, policy, bookingId).booking
              newTime == TimeOfDay(newStart)
          IN IF booking.created_by # userId
             THEN Respond(p, "reschedule", userId, "unauthorized")
             ELSE IF booking.status # "CONFIRMED"
             THEN Respond(p, "reschedule", userId, "not_confirmed")
             ELSE IF RescheduleTimeError(newTime, hours) # "" \/ newStart <= now
             THEN Respond(p, "reschedule", userId, "invalid")
             ELSE req' = [req EXCEPT ![p] =
                            [IdleReq EXCEPT !.op = "reschedule", !.pc = "rs_check",
                               !.user = userId, !.b = bookingId, !.start = newStart,
                               !.end = newStart + hours]]
  /\ UNCHANGED <<db, sessions, now, policy>>

ConflictIncludingSelf(d, venueId, bookingId, newStart, newEnd) ==
  \E i \in 1..Len(d.bookings) :
     /\ d.bookings[i].venue_id = venueId
     /\ d.bookings[i].status \in ActiveStatuses
     /\ Overlaps(d.bookings[i], newStart, newEnd)

ConflictExcludingSelf(d, venueId, bookingId, newStart, newEnd) ==
  \E i \in 1..Len(d.bookings) :
     /\ d.bookings[i].venue_id = venueId
     /\ d.bookings[i].status \in ActiveStatuses
     /\ i # bookingId
     /\ Overlaps(d.bookings[i], newStart, newEnd)

(* the conflict query inside the reschedule transaction *)
RescheduleConflictCheck(p) ==
  /\ req[p].pc = "rs_check"
  /\ IF ConflictExcludingSelf(db, Venue.venue_id, req[p].b, req[p].start, req[p].end)
     THEN Respond(p, "reschedule", req[p].user, "unavailable")
     ELSE req' = [req EXCEPT ![p].pc = "rs_write"]
  /\ UNCHANGED <<db, sessions, now, policy>>

UpdateBookingDatesAndReset(d, bookingId, start, end) ==
  [d EXCEPT !.bookings[bookingId].booking_start = start,
            !.bookings[bookingId].booking_end = end,
            !.bookings[bookingId].status = "PENDING"]

UpdateBookingDates(d, bookingId, start, end) ==
  [d EXCEPT !.bookings[bookingId].booking_start = start,
            !.bookings[bookingId].booking_end = end]

(* the update of the interval and the commit *)
RescheduleCommit(p) ==
  /\ req[p].pc = "rs_write"
  /\ db' = UpdateBookingDates(db, req[p].b, req[p].start, req[p].end)
  /\ req' = [req EXCEPT ![p] =
               [IdleReq EXCEPT !.op = "reschedule", !.pc = "done", !.user = req[p].user,
                  !.b = req[p].b, !.result = "rescheduled"]]
  /\ UNCHANGED <<sessions, now, policy>>

----------------------------------------------------------------------------
(* BookingService.cancelBooking *)

PlayerRefundAtOrBeforeCutoff(baseAmount, refundPct, policyHours, hoursRemaining) ==
  IF hoursRemaining >= policyHours THEN baseAmount
  ELSE Percent(baseAmount, refundPct)

PlayerRefund(baseAmount, refundPct, policyHours, hoursRemaining) ==
  IF hoursRemaining > policyHours THEN baseAmount
  ELSE Percent(baseAmount, refundPct)

TooLateOnlyAfterStart(hoursRemaining) == hoursRemaining < 0

TooLate(hoursRemaining) == hoursRemaining <= 0

MayCancel(booking, userId) == booking.created_by = userId

AlreadyCancelledMisspelt(booking) == booking.status = "CANCELED"

AlreadyCancelled(booking) == booking.status = "CANCELLED"

(* cancelBooking up to the start of its transaction *)
CancelBooking(p, userId, bookingId) ==
  /\ Ready(p)
  /\ IF bookingId > Len(db.bookings)
     THEN Respond(p, "cancel", userId, "not_found")
     ELSE LET row == GetBookingWithPolicy(db, policy, bookingId)
              booking == row.booking
              hoursRemaining == booking.booking_start - now
              R(result) == [IdleReq EXCEPT !.op = "cancel", !.pc = "done",
                              !.user = userId, !.b = bookingId, !.hrs = hoursRemaining,
                              !.result = result]
          IN IF ~MayCancel(booking, userId)
             THEN req' = [req EXCEPT ![p] = R("unauthorized")]
             ELSE IF AlreadyCancelled(booking)
             THEN req' = [req EXCEPT ![p] = R("already_cancelled")]
             ELSE IF TooLate(hoursRemaining)
             THEN req' = [req EXCEPT ![p] = R("too_late")]
             ELSE req' = [req EXCEPT ![p] =
                            [IdleReq EXCEPT !.op = "cancel", !.pc = "ca_txn",
                               !.user = userId, !.b = bookingId, !.hrs = hoursRemaining,
                               !.attempts = 1,
                               !.total = booking.total_amount,
                               !.pct = IF hoursRemaining > row.hours_before_start
                                       THEN 100 ELSE row.refund_percentage,
                               !.refund = PlayerRefund(booking.total_amount,
                                             row.refund_percentage,
                                             row.hours_before_start, hoursRemaining)]]
  /\ UNCHANGED <<db, sessions, now, policy>>

UpdateCancellationTimeOnly(d, bookingId) ==
  [d EXCEPT !.bookings[bookingId].cancelled = TRUE]

UpdateBookingCancellation(d, bookingId) ==
  [d EXCEPT !.bookings[bookingId].status = "CANCELLED",
            !.bookings[bookingId].cancelled = TRUE]

RECURSIVE RefundOthers(_, _, _, _)
RefundOthers(d, rows, bookingId, pct) ==
  IF rows = <<>> THEN d
  ELSE LET r == Head(rows)
       IN IF r.is_initiator = 0 /\ r.payment_status = "PAID"
          THEN LET pRefund == Percent(r.share_amount, pct)
                   d1 == UpdateWalletBalance(d, r.user_id, pRefund)
                   d2 == CreateTransaction(d1, r.user_id, pRefund, "CREDIT", "REFUND",
                                           bookingId)
               IN RefundOthers(d2, Tail(rows), bookingId, pct)
          ELSE RefundOthers(d, Tail(rows), bookingId, pct)

RECURSIVE OthersRefundTotal(_, _)
OthersRefundTotal(rows, pct) ==
  IF rows = <<>> THEN 0
  ELSE (IF Head(rows).is_initiator = 0 /\ Head(rows).payment_status = "PAID"
        THEN Percent(Head(rows).share_amount, pct) ELSE 0)
       + OthersRefundTotal(Tail(rows), pct)

InitiatorRefundInFull(rows, r) == r.refund

InitiatorRefund(rows, r) == r.refund - OthersRefundTotal(rows, r.pct)

CancelTxn(d, r) ==
  LET d1 == UpdateBookingCancellation(d, r.b)
      rows == GetBookingParticipants(d, r.b)
      d2 == RefundOthers(d1, rows, r.b, r.pct)
      initiatorRefund == InitiatorRefund(rows, r)
      d3 == IF initiatorRefund > 0
            THEN UpdateWalletBalance(d2, r.user, initiatorRefund) ELSE d2
      d4 == IF initiatorRefund > 0
            THEN CreateTransaction(d3, r.user, initiatorRefund, "CREDIT", "REFUND", r.b)
            ELSE d3
      d5 == IF r.refund > 0
            THEN UpdateWalletBalance(d4, Venue.owner_id, 0 - r.refund) ELSE d4
      d6 == IF r.refund > 0
            THEN CreateTransaction(d5, Venue.owner_id, 0 - r.refund, "DEBIT",
                                   "REFUND_DEDUCTION", r.b)
            ELSE d5
      d7 == UpdateParticipantsPaymentStatus(d6, r.b,
               IF r.refund > 0 THEN "REFUNDED" ELSE "CANCELLED")
  IN IF d7.err # "" THEN d7
     ELSE [d7 EXCEPT !.payments =
             [i \in 1..Len(@) |->
                IF @[i].booking_id = r.b /\ @[i].status = "SUCCEEDED"
                THEN [@[i] EXCEPT !.status = "REFUNDED"] ELSE @[i]]]

(* the cancellation transaction and its commit (or rollback) *)
CancelCommit(p) ==
  /\ req[p].pc = "ca_txn"
  /\ LET d == CancelTxn(db, req[p])
     IN IF d.err # ""
        THEN /\ req' = [req EXCEPT ![p].pc = "done", ![p].result = "error"]
             /\ UNCHANGED db
        ELSE /\ db' = d
             /\ req' = [req EXCEPT ![p].pc = "done", ![p].result = "cancelled"]
  /\ UNCHANGED <<sessions, now, policy>>

(* the store reports a lock timeout or a deadlock to a statement of the *)
(* cancellation: the catch rolls back and rethrows                       *)
CancelStoreError(p) ==
  /\ req[p].pc = "ca_txn"
  /\ req' = [req EXCEPT ![p].pc = "done", ![p].result = "store_error"]
  /\ UNCHANGED <<db, sessions, now, policy>>

----------------------------------------------------------------------------
(* BookingController.paySplitShare *)

ParticipantRow(d, bookingId, userId) ==
  LET hits == {i \in 1..Len(d.participants) :
                 /\ d.participants[i].booking_id = bookingId
                 /\ d.participants[i].user_id = userId}
  IN IF hits = {} THEN 0 ELSE CHOOSE i \in hits : \A j \in hits : i <= j

(* paySplitShare up to the wallet debit, or to the provider session *)
PaySplitShare(p, userId, bookingId, useWallet) ==
  /\ Ready(p)
  /\ LET i == ParticipantRow(db, bookingId, userId)
         R(result) == [IdleReq EXCEPT !.op = "payshare", !.pc = "done", !.user = userId,
                         !.b = bookingId, !.result = result]
     IN IF i = 0
        THEN req' = [req EXCEPT ![p] = R("not_found")] /\ UNCHANGED sessions
        ELSE IF db.participants[i].payment_status = "PAID"
        THEN req' = [req EXCEPT ![p] = R("already_paid")] /\ UNCHANGED sessions
        ELSE LET amountToPay == db.participants[i].share_amount
             IN IF useWallet
                THEN /\ req' = [req EXCEPT ![p] =
                                  IF GetWalletBalance(db, userId) < amountToPay
                                  THEN R("insufficient")
                                  ELSE [IdleReq EXCEPT !.op = "payshare",
                                          !.pc = "ps_check", !.user = userId,
                                          !.b = bookingId, !.total = amountToPay]]
                     /\ UNCHANGED sessions
                ELSE /\ Len(sessions) < MaxSessions
                     /\ sessions' = Append(sessions,
                            [type |-> "SHARE_PAYMENT", paid |-> FALSE, user_id |-> userId,
                             booking_id |-> bookingId, booking_start |-> 0,
                             booking_end |-> 0, total_amount |-> 0, invites |-> {},
                             share_amount |-> 0, points_to_deduct |-> 0,
                             custom_refund_percentage |-> NoCustom,
                             custom_hours_before_start |-> NoCustom,
                             owner_id |-> "", amount_total |-> amountToPay])
                     /\ req' = [req EXCEPT ![p] =
                                  [R("checkoutUrl") EXCEPT !.sess = Len(sessions) + 1]]
  /\ UNCHANGED <<db, now, policy>>

(* updateWalletBalance on the unlocked connection: the balance check *)
PayShareBalanceCheck(p) ==
  /\ req[p].pc = "ps_check"
  /\ LET d == UpdateWalletBalance(db, req[p].user, 0 - req[p].total)
     IN req' = [req EXCEPT ![p].pc = IF d.err # "" THEN "done" ELSE "ps_update",
                           ![p].result = IF d.err # "" THEN "error" ELSE ""]
  /\ UNCHANGED <<db, sessions, now, policy>>

(* updateWalletBalance on the unlocked connection: the UPDATE statement *)
PayShareDebit(p) ==
  /\ req[p].pc = "ps_update"
  /\ db' = [db EXCEPT !.wallets[req[p].user] = @ - req[p].total]
  /\ req' = [req EXCEPT ![p].pc = "ps_tx"]
  /\ UNCHANGED <<sessions, now, policy>>

(* the ledger row of the debit *)
PayShareLedgerRow(p) ==
  /\ req[p].pc = "ps_tx"
  /\ db' = CreateTransaction(db, req[p].user, 0 - req[p].total, "DEBIT",
                             "BOOKING_SPLIT_PAYMENT", req[p].b)
  /\ req' = [req EXCEPT ![p].pc = "ps_reimb"]
  /\ UNCHANGED <<sessions, now, policy>>

(* executeReimbursement in its own transaction *)
PayShareReimburse(p) ==
  /\ req[p].pc = "ps_reimb"
  /\ LET d == ExecuteReimbursement(db, req[p].user, req[p].b, req[p].total)
     IN IF d.err # ""
        THEN /\ req' = [req EXCEPT ![p].pc = "done", ![p].result = "error"]
             /\ UNCHANGED db
        ELSE /\ db' = d
             /\ req' = [req EXCEPT ![p].pc = "done", ![p].result = "paid"]
  /\ UNCHANGED <<sessions, now, policy>>

----------------------------------------------------------------------------
(* VenueController.remove, VenueService.deleteVenue *)

CountActiveBookings(d, venueId, instant) ==
  Cardinality({i \in 1..Len(d.bookings) :
                 /\ d.bookings[i].venue_id = venueId
                 /\ d.bookings[i].status \in {"CONFIRMED", "PENDING"}
                 /\ d.bookings[i].booking_end > instant})

(* the rows of the venue's bookings are deleted from every table; the ledger *)
(* rows that name no booking stay                                            *)
DeleteVenueBookings(d, venueId) ==
  LET gone == {i \in 1..Len(d.bookings) : d.bookings[i].venue_id = venueId}
  IN [d EXCEPT !.wtx = SelectSeq(@, LAMBDA r : r.booking_id \notin gone),
               !.payments = SelectSeq(@, LAMBDA r : r.booking_id \notin gone),
               !.participants = SelectSeq(@, LAMBDA r : r.booking_id \notin gone),
               !.bookings = SelectSeq(@, LAMBDA b : b.venue_id # venueId)]

(* remove and deleteVenue up to the cleanup of the venue's bookings *)
DeleteVenue(p, userId, venueId) ==
  /\ Ready(p)
  /\ LET R(pc, result) == [IdleReq EXCEPT !.op = "delete_venue", !.pc = pc,
                             !.user = userId, !.b = venueId, !.result = result]
     IN req' = [req EXCEPT ![p] =
                  IF venueId \notin db.venues THEN R("done", "not_found")
                  ELSE IF Venue.owner_id # userId THEN R("done", "unauthorized")
                  ELSE IF CountActiveBookings(db, venueId, now) > 0
                  THEN R("done", "has_active")
                  ELSE R("dv_bookings", "")]
  /\ UNCHANGED <<db, sessions, now, policy>>

(* deleteVenueBookings: one transaction *)
DeleteVenueBookingsCommit(p) ==
  /\ req[p].pc = "dv_bookings"
  /\ db' = DeleteVenueBookings(db, req[p].b)
  /\ req' = [req EXCEPT ![p].pc = "dv_venue"]
  /\ UNCHANGED <<sessions, now, policy>>

(* VenueRepository.deleteVenue: one transaction *)
DeleteVenueCommit(p) ==
  /\ req[p].pc = "dv_venue"
  /\ db' = [db EXCEPT !.venues = @ \ {req[p].b}]
  /\ req' = [req EXCEPT ![p].pc = "done", ![p].result = "deleted"]
  /\ UNCHANGED <<sessions, now, policy>>

(* time passes *)
Tick ==
  /\ \E t \in NowValues :
       /\ t > now
       /\ \A u \in NowValues : u > now => t <= u
       /\ now' = t
  /\ UNCHANGED <<db, sessions, policy, req>>

----------------------------------------------------------------------------
(* updateWalletBalance called on its own, in a transaction that commits *)
AdjustWallet(p, userId, amount) ==
  /\ Ready(p)
  /\ GetWalletBalance(db, userId) + amount <= MaxAdjust * Cent
  /\ LET d == UpdateWalletBalance(db, userId, amount)
     IN IF d.err # ""
        THEN /\ UNCHANGED db
             /\ req' = [req EXCEPT ![p] =
                          [IdleReq EXCEPT !.op = "adjust", !.pc = "done", !.user = userId,
                             !.total = amount, !.result = "insufficient"]]
        ELSE /\ db' = d
             /\ req' = [req EXCEPT ![p] =
                          [IdleReq EXCEPT !.op = "adjust", !.pc = "done", !.user = userId,
                             !.total = amount, !.result = "adjusted"]]
  /\ UNCHANGED <<sessions, now, policy>>

----------------------------------------------------------------------------
DefaultPolicy == PolicyRow(50, 24)

Init ==
  /\ db = [EmptyDb EXCEPT !.wallets = InitialWallets]
  /\ sessions = <<>>
  /\ now = 0
  /\ policy = DefaultPolicy
  /\ req = [p \in Procs |-> IdleReq]

NoInvites == {{}}

InviteOptions == {{}, {"p2"}, {"p2", "g1"}}

CheckoutSteps(P, U, S, D, I) ==
  \/ \E p \in P, u \in U, st \in S, h \in D, w \in BOOLEAN :
        \E inv \in I : CreateCheckoutSession(p, u, st, 0, h, inv \ {u}, w)
  \/ \E p \in P : CheckoutConflictCheck(p)
  \/ \E p \in P : CheckoutCommit(p)

ConfirmSteps(P) ==
  \/ \E sid \in 1..MaxSessions : StripePay(sid)
  \/ \E p \in P, sid \in 1..MaxSessions : HandleCheckoutSuccess(p, "", sid)
  \/ \E p \in P : ConfirmConflictCheck(p)
  \/ \E p \in P : ConfirmCommit(p)

ShareConfirmSteps(P) ==
  \/ \E p \in P : ConfirmShareReimburse(p)
  \/ \E p \in P : ConfirmSharePayment(p)

WalkInSteps(P, S, D) ==
  \/ \E p \in P, st \in S, h \in D, ty \in {"WALK_IN", "BLOCK"}, sp \in BOOLEAN :
        CreateWalkInBooking(p, Owner, st, h, ty, sp)
  \/ \E p \in P : WalkInWrite(p)

RescheduleSteps(P, S, D) ==
  \/ \E p \in P, u \in Players, b \in 1..MaxBookings, st \in S, h \in D :
        RescheduleBooking(p, u, b, st, h)
  \/ \E p \in P : RescheduleConflictCheck(p)
  \/ \E p \in P : RescheduleCommit(p)

CancelSteps(P) ==
  \/ \E p \in P, u \in Users, b \in 1..MaxBookings : CancelBooking(p, u, b)
  \/ \E p \in P : CancelCommit(p)

VenueSteps(P, U) ==
  \/ \E p \in P, u \in U : DeleteVenue(p, u, Venue.venue_id)
  \/ \E p \in P : DeleteVenueBookingsCommit(p)
  \/ \E p \in P : DeleteVenueCommit(p)

(* BookingController.calculatePrice *)
CalculatePrice(p, start, hours) ==
  /\ Ready(p)
  /\ LET R(result) == [IdleReq EXCEPT !.op = "price", !.pc = "done", !.start = start,
                         !.hrs = hours, !.result = result]
     IN req' = [req EXCEPT ![p] =
                  IF hours = 0 THEN R("missing")
                  ELSE IF Venue.venue_id \notin db.venues THEN R("venue_not_found")
                  ELSE [R("priced") EXCEPT
                          !.total = CalculateDynamicPrice(Venue, start, hours)]]
  /\ UNCHANGED <<db, sessions, now, policy>>

StoreErrorSteps(P) ==
  \/ \E p \in P : CheckoutStoreError(p)
  \/ \E p \in P : CancelStoreError(p)

PayShareSteps(P) ==
  \/ \E p \in P, u \in Players, b \in 1..MaxBookings, w \in BOOLEAN :
        PaySplitShare(p, u, b, w)
  \/ \E p \in P : PayShareBalanceCheck(p)
  \/ \E p \in P : PayShareDebit(p)
  \/ \E p \in P : PayShareLedgerRow(p)
  \/ \E p \in P : PayShareReimburse(p)

(* every handler, on every worker, with every input *)
Next ==
  \/ CheckoutSteps(Procs, Players, Starts, Durs, InviteOptions)
  \/ ConfirmSteps(Procs) \/ ShareConfirmSteps(Procs)
  \/ WalkInSteps(Procs, Starts, Durs) \/ RescheduleSteps(Procs, Starts, Durs)
  \/ CancelSteps(Procs) \/ PayShareSteps(Procs) \/ VenueSteps(Procs, Users) \/ Tick
  \/ StoreErrorSteps(Procs) \/ (\E p \in Procs, st \in Starts, h \in Durs : CalculatePrice(p, st, h))

Spec == Init /\ [][Next]_vars

(* admission: checkout, confirmation and walk-in/block of the 09:00 two-hour slot *)
(* and reschedules between 09:00 and 11:00, concurrently, without invitees       *)
NextAdmit ==
  \/ CheckoutSteps(Procs, Players, {33}, {2}, NoInvites)
  \/ ConfirmSteps(Procs) \/ WalkInSteps(Procs, {33}, {2})
  \/ RescheduleSteps(Procs, Starts, {2})

SpecAdmit == Init /\ [][NextAdmit]_vars

(* checkout and confirmation of the 09:00 three-hour slot, one request at a time *)
NextConfirmSeq ==
  \/ CheckoutSteps({1}, Players, {33}, {3}, NoInvites) \/ ConfirmSteps({1}) \/ Tick

SpecConfirmSeq == Init /\ [][NextConfirmSeq]_vars

(* checkout with invitees and its confirmation, one request at a time *)
NextShares ==
  \/ CheckoutSteps({1}, {"p1"}, {33}, Durs, InviteOptions) \/ ConfirmSteps({1})

SpecShares == Init /\ [][NextShares]_vars

(* checkout and confirmation of the 09:00 two-hour slot (total 4000) and          *)
(* cancellation of the first booking, one request at a time, under each policy   *)
InitCancel ==
  /\ db = [EmptyDb EXCEPT !.wallets = InitialWallets]
  /\ sessions = <<>>
  /\ now = 0
  /\ policy \in PolicyOptions
  /\ req = [p \in Procs |-> IdleReq]

NextCancelSeq ==
  \/ CheckoutSteps({1}, {"p1"}, {33}, {2}, NoInvites) \/ ConfirmSteps({1})
  \/ \E u \in Users : CancelBooking(1, u, 1)
  \/ CancelCommit(1)
  \/ Tick

SpecCancelSeq == InitCancel /\ [][NextCancelSeq]_vars

(* bookings of the 09:00 two-hour slot by p1, and p1's cancels and reschedules *)
(* of the first of them, concurrently                                         *)
NextCancelRace ==
  \/ CheckoutSteps(Procs, {"p1"}, {33}, {2}, NoInvites)
  \/ \E p \in Procs : CancelBooking(p, "p1", 1)
  \/ \E p \in Procs : CancelCommit(p)
  \/ \E p \in Procs, st \in Starts : RescheduleBooking(p, "p1", 1, st, 2)
  \/ \E p \in Procs : RescheduleConflictCheck(p)
  \/ \E p \in Procs : RescheduleCommit(p)
  \/ Tick

SpecCancelRace == Init /\ [][NextCancelRace]_vars

(* admission one request at a time: three-hour checkouts at 09:00 (for a court), *)
(* their confirmation, and two-hour walk-ins and blocks at 09:00 and 11:00      *)
NextAdmitSeq ==
  \/ CheckoutSteps({1}, Players, {33}, {3}, NoInvites) \/ ConfirmSteps({1})
  \/ WalkInSteps({1}, Starts, {2})

SpecAdmitSeq == Init /\ [][NextAdmitSeq]_vars

(* two-hour bookings at 09:00 and 12:00 and their reschedules to 06:00, 09:00, *)
(* 10:00 and 12:00, one request at a time                                     *)
BookedStarts == {33, 36}

NewStarts == {30, 33, 34, 36}

NextReschedSeq ==
  \/ CheckoutSteps({1}, Players, BookedStarts, {2}, NoInvites)
  \/ RescheduleSteps({1}, NewStarts, {2})

SpecReschedSeq == Init /\ [][NextReschedSeq]_vars

(* p1's checkouts of the two-hour slots at 09:00 and 11:00, alone or with p2    *)
(* and a guest, with the wallet, concurrently                                   *)
NextLedgerCheckout ==
  \/ \E p \in Procs, st \in Starts, inv \in {{}, {"p2", "g1"}} :
        CreateCheckoutSession(p, "p1", st, 0, 2, inv, TRUE)
  \/ \E p \in Procs : CheckoutConflictCheck(p)
  \/ \E p \in Procs : CheckoutCommit(p)

SpecLedgerCheckout == Init /\ [][NextLedgerCheckout]_vars

(* p2's checkouts of 09:00 for three hours and of 12:00 for two, and their     *)
(* confirmations, one request at a time                                        *)
NextPointsSpent ==
  \/ CheckoutSteps({1}, {"p2"}, {33}, {3}, NoInvites)
  \/ CheckoutSteps({1}, {"p2"}, {36}, {2}, NoInvites)
  \/ ConfirmSteps({1})

SpecPointsSpent == Init /\ [][NextPointsSpent]_vars

(* p1 books 09:00 and cancels, the owner or p1 asks to delete the venue, one   *)
(* request at a time                                                           *)
NextVenueDelete ==
  \/ CheckoutSteps({1}, {"p1"}, {33}, {2}, NoInvites)
  \/ \E u \in {"p1"} : CancelBooking(1, u, 1)
  \/ CancelCommit(1)
  \/ VenueSteps({1}, {"p1", Owner})
  \/ Tick

SpecVenueDelete == Init /\ [][NextVenueDelete]_vars

(* checkout requests by p1 with every kind of time: 06:00, 09:00, 21:00 and    *)
(* 22:00, on and off the quarter hour, of -1 to 16 hours, as time passes       *)
RequestStarts == {30, 33, 45, 46}

RequestMinutes == {0, 10}

RequestHours == {-1, 0, 2, 16}

NextCheckoutValidate ==
  \/ \E st \in RequestStarts, m \in RequestMinutes, h \in RequestHours, w \in BOOLEAN :
        CreateCheckoutSession(1, "p1", st, m, h, {}, w)
  \/ CheckoutConflictCheck(1)
  \/ CheckoutCommit(1)
  \/ Tick

SpecCheckoutValidate == Init /\ [][NextCheckoutValidate]_vars

(* the time validation of a checkout and of a reschedule on the same request:  *)
(* the date and hour are held in start, the duration in hrs                    *)
TimeHours == {6, 7, 9, 21, 22}

TimeMinutes == {0, 10, 15}

DurationInputs == {-1, 0, 1, 2, 15, 16}

InitValidate ==
  /\ db = [EmptyDb EXCEPT !.wallets = InitialWallets]
  /\ sessions = <<>>
  /\ now \in {0, 33}
  /\ policy = DefaultPolicy
  /\ \E h \in TimeHours, m \in TimeMinutes, d \in DurationInputs :
       req = [p \in Procs |->
                IF p = 1
                THEN [IdleReq EXCEPT !.op = "validate", !.pc = "v_checkout",
                        !.start = 24 + h, !.minutes = m, !.hrs = d]
                ELSE IdleReq]

ValidateCheckout(p) ==
  /\ req[p].pc = "v_checkout"
  /\ LET time == <<req[p].start % 24, req[p].minutes>>
         start == req[p].start * 60 + req[p].minutes
     IN req' = [req EXCEPT ![p].pc = "v_reschedule",
                  ![p].kind = IF \/ req[p].hrs = 0
                                 \/ GetTimeValidationError(time, req[p].hrs) # ""
                                 \/ start <= now * 60
                              THEN "invalid" ELSE "valid"]
  /\ UNCHANGED <<db, sessions, now, policy>>

ValidateReschedule(p) ==
  /\ req[p].pc = "v_reschedule"
  /\ LET newTime == <<req[p].start % 24, req[p].minutes>>
         start == req[p].start * 60 + req[p].minutes
     IN req' = [req EXCEPT ![p].pc = "done",
                  ![p].result = IF \/ req[p].hrs = 0
                                   \/ RescheduleTimeError(newTime, req[p].hrs) # ""
                                   \/ start <= now * 60
                                THEN "invalid" ELSE "valid"]
  /\ UNCHANGED <<db, sessions, now, policy>>

NextValidate ==
  \/ \E p \in Procs : ValidateCheckout(p)
  \/ \E p \in Procs : ValidateReschedule(p)

SpecValidate == InitValidate /\ [][NextValidate]_vars

(* the conflict queries alone, over every store of up to MaxBookings bookings *)
StoredTimes == 33..36

StoredStatuses == {"CONFIRMED", "PENDING", "BLOCKED", "CANCELLED", "COMPLETED"}

OtherVenue == 2

StoredBooking(venueId, start, end, status) ==
  [venue_id |-> venueId, court_id |-> NoCourt, created_by |-> Owner,
   booking_start |-> start, booking_end |-> end, total_amount |-> 0,
   status |-> status, cancellation_policy_id |-> Venue.cancellation_policy_id,
   custom_refund_percentage |-> NoCustom, custom_hours_before_start |-> NoCustom,
   points_used |-> 0, paid_amount |-> 0, cancelled |-> (status = "CANCELLED")]

StoredOptions ==
  {StoredBooking(Venue.venue_id, s, e, st) :
      s \in StoredTimes, e \in StoredTimes, st \in StoredStatuses} \cup
  {StoredBooking(OtherVenue, s, e, "CONFIRMED") : s \in StoredTimes, e \in StoredTimes}

InitConflict ==
  /\ \E n \in 0..MaxBookings :
        \E bs \in [1..n -> {o \in StoredOptions : o.booking_start < o.booking_end}] :
           db = [EmptyDb EXCEPT !.bookings = bs]
  /\ sessions = <<>>
  /\ now = 0
  /\ policy = DefaultPolicy
  /\ req = [p \in Procs |-> IdleReq]

QueryIntervals == {<<34, 35>>, <<33, 36>>}

(* hasBookingConflict(venueId, start, end), as every admitting handler calls it *)
ConflictQuery(p, start, end) ==
  /\ Ready(p)
  /\ req' = [req EXCEPT ![p] =
               [IdleReq EXCEPT !.op = "conflict", !.pc = "done", !.start = start,
                  !.end = end,
                  !.result = IF HasBookingConflict(db, Venue.venue_id, start, end)
                             THEN "conflict" ELSE "free"]]
  /\ UNCHANGED <<db, sessions, now, policy>>

(* the conflict query of rescheduleBooking, which leaves out the booking itself *)
ConflictQueryExcluding(p, bookingId, start, end) ==
  /\ Ready(p)
  /\ bookingId \in 1..Len(db.bookings)
  /\ req' = [req EXCEPT ![p] =
               [IdleReq EXCEPT !.op = "conflict_ex", !.pc = "done", !.b = bookingId,
                  !.start = start, !.end = end,
                  !.result = IF ConflictExcludingSelf(db, Venue.venue_id, bookingId,
                                                      start, end)
                             THEN "conflict" ELSE "free"]]
  /\ UNCHANGED <<db, sessions, now, policy>>

NextConflict ==
  \/ \E q \in QueryIntervals : ConflictQuery(1, q[1], q[2])
  \/ \E q \in QueryIntervals : ConflictQueryExcluding(1, 1, q[1], q[2])

SpecConflict == InitConflict /\ [][NextConflict]_vars

(* a three-hour booking shared with p2, and split-share payments, concurrently *)
NextSplit ==
  \/ CheckoutSteps(Procs, {"p1"}, {33}, {3}, {{"p2"}}) \/ PayShareSteps(Procs)

SpecSplit == Init /\ [][NextSplit]_vars

(* a three-hour booking of p1 shared with p2 and a guest, and p2's share payment *)
(* from the wallet or through the provider, one request at a time              *)
NextSplitScenario ==
  \/ CheckoutSteps({1}, {"p1"}, {33}, {3}, {{"p2", "g1"}}) \/ ConfirmSteps({1})
  \/ PayShareSteps({1}) \/ ShareConfirmSteps({1})

SpecSplitScenario == Init /\ [][NextSplitScenario]_vars

(* p2's wallet payment of the share of p1's booking on the first worker; while *)
(* it is in progress, p1 cancels the booking and the owner deletes the venue   *)
(* on the second                                                               *)
NextSettle ==
  \/ CreateCheckoutSession(1, "p1", 33, 0, 3, {"p2"}, TRUE)
  \/ CheckoutConflictCheck(1) \/ CheckoutCommit(1)
  \/ PaySplitShare(1, "p2", 1, TRUE)
  \/ PayShareBalanceCheck(1) \/ PayShareDebit(1)
  \/ PayShareLedgerRow(1) \/ PayShareReimburse(1)
  \/ CancelBooking(2, "p1", 1) \/ CancelCommit(2)
  \/ VenueSteps({2}, {Owner})

SpecSettle == Init /\ [][NextSettle]_vars

(* a venue whose policy row gives 50% within 24 hours, with and without custom *)
(* refund columns of 80% within 6 hours; p1's bookings of the 09:00 two-hour   *)
(* slot and p1's cancel of the first, one request at a time                     *)
CustomPolicyOptions ==
  {PolicyRow(50, 24),
   [PolicyRow(50, 24) EXCEPT !.custom_refund_percentage = 80,
                             !.custom_hours_before_start = 6]}

InitCustom ==
  /\ db = [EmptyDb EXCEPT !.wallets = InitialWallets]
  /\ sessions = <<>>
  /\ now = 0
  /\ policy \in CustomPolicyOptions
  /\ req = [p \in Procs |-> IdleReq]

NextCustomCancel ==
  \/ CheckoutSteps({1}, {"p1"}, {33}, {2}, NoInvites) \/ ConfirmSteps({1})
  \/ CancelBooking(1, "p1", 1)
  \/ CancelCommit(1)
  \/ Tick

SpecCustomCancel == InitCustom /\ [][NextCustomCancel]_vars

(* p1's three-hour booking shared with p2 and a guest, p2's payment of the share *)
(* from the wallet and p1's cancel, one request at a time, under each policy    *)
NextCancelSplit ==
  \/ CreateCheckoutSession(1, "p1", 33, 0, 3, {"p2", "g1"}, TRUE)
  \/ CheckoutConflictCheck(1) \/ CheckoutCommit(1)
  \/ PaySplitShare(1, "p2", 1, TRUE)
  \/ PayShareBalanceCheck(1) \/ PayShareDebit(1)
  \/ PayShareLedgerRow(1) \/ PayShareReimburse(1)
  \/ CancelBooking(1, "p1", 1) \/ CancelCommit(1)
  \/ Tick

SpecCancelSplit == InitCancel /\ [][NextCancelSplit]_vars

(* price requests alone, for a venue with up to two of these pricing rules: *)
(* a peak rule, a Monday rule, a Tuesday rule and an off-peak discount       *)
RuleOptions ==
  {[start_hour |-> 18, end_hour |-> 22, multiplier |-> 150, days_of_week |-> {}],
   [start_hour |-> 17, end_hour |-> 19, multiplier |-> 120, days_of_week |-> {1}],
   [start_hour |-> 18, end_hour |-> 22, multiplier |-> 200, days_of_week |-> {2, 3}],
   [start_hour |-> 7, end_hour |-> 12, multiplier |-> 80, days_of_week |-> {}]}

PriceStarts == {day * 24 + h : day \in {1, 2}, h \in {9, 17, 18, 21, 22}}

InitPrice ==
  /\ \E rules \in SUBSET RuleOptions :
       /\ Cardinality(rules) <= 2
       /\ db = [EmptyDb EXCEPT !.pricing_rules = rules, !.wallets = InitialWallets]
  /\ sessions = <<>>
  /\ now = 0
  /\ policy = DefaultPolicy
  /\ req = [p \in Procs |-> IdleReq]

NextPrice == \E st \in PriceStarts, h \in {0, 2} : CalculatePrice(1, st, h)

SpecPrice == InitPrice /\ [][NextPrice]_vars

(* the owner's walk-ins and blocks of the 09:00 two-hour slot, the owner's cancel *)
(* of the first of them and p1's checkout of the slot, one request at a time,   *)
(* under each policy                                                            *)
NextBlockCancel ==
  \/ WalkInSteps({1}, {33}, {2})
  \/ CancelBooking(1, Owner, 1) \/ CancelCommit(1)
  \/ CheckoutSteps({1}, {"p1"}, {33}, {2}, NoInvites)
  \/ Tick

SpecBlockCancel == InitCancel /\ [][NextBlockCancel]_vars

(* p1's ledger-funded checkout of the 09:00 two-hour slot and p1's cancel of it, *)
(* one request at a time, with transient errors of the store                    *)
NextStoreError ==
  \/ CreateCheckoutSession(1, "p1", 33, 0, 2, {}, TRUE)
  \/ CheckoutConflictCheck(1) \/ CheckoutCommit(1)
  \/ CancelBooking(1, "p1", 1) \/ CancelCommit(1)
  \/ StoreErrorSteps({1})
  \/ Tick

SpecStoreError == Init /\ [][NextStoreError]_vars

(* p1's ledger-funded bookings of the 09:00 two-hour slot and p1's cancels of *)
(* them, concurrently and before the refund cutoff: a booking cancelled twice *)
(* leaves the owner without the revenue of the next one                       *)
NextOwnerShort ==
  \/ \E p \in Procs : CreateCheckoutSession(p, "p1", 33, 0, 2, {}, TRUE)
  \/ \E p \in Procs : CheckoutConflictCheck(p)
  \/ \E p \in Procs : CheckoutCommit(p)
  \/ \E p \in Procs, b \in 1..MaxBookings : CancelBooking(p, "p1", b)
  \/ \E p \in Procs : CancelCommit(p)

SpecOwnerShort == Init /\ [][NextOwnerShort]_vars

(* the wallet alone: wallets are created lazily by the first credit *)
InitWallet ==
  /\ db = EmptyDb
  /\ sessions = <<>>
  /\ now = 0
  /\ policy = DefaultPolicy
  /\ req = [p \in Procs |-> IdleReq]

NextWallet == \E u \in Users, a \in AdjustAmounts : AdjustWallet(1, u, a)

SpecWallet == InitWallet /\ [][NextWallet]_vars

----------------------------------------------------------------------------
(* Properties *)

Active(b) == b.status \in ActiveStatuses

SameResource(a, b) ==
  /\ a.venue_id = b.venue_id
  /\ (a.court_id = NoCourt \/ b.court_id = NoCourt \/ a.court_id = b.court_id)

\* C1: any two CONFIRMED, PENDING or BLOCKED bookings on the same resource have
\* intervals that do not overlap
NoDoubleBooking ==
  \A i, j \in 1..Len(db.bookings) :
     (i < j /\ Active(db.bookings[i]) /\ Active(db.bookings[j])
        /\ SameResource(db.bookings[i], db.bookings[j]))
     => ~(db.bookings[i].booking_start < db.bookings[j].booking_end
          /\ db.bookings[i].booking_end > db.bookings[j].booking_start)

\* C2: of the checkout attempts for one slot that run concurrently, one ends with a
\* CONFIRMED booking and every other one is rejected: no two workers hold a
\* "confirmed" checkout response for two CONFIRMED bookings of the same slot
OneCheckoutWins ==
  \A p, q \in Procs :
     (p # q /\ req[p].op = "checkout" /\ req[q].op = "checkout"
        /\ req[p].result = "confirmed" /\ req[q].result = "confirmed")
     => LET a == db.bookings[req[p].b]
            b == db.bookings[req[q].b]
        IN ~(a.status = "CONFIRMED" /\ b.status = "CONFIRMED"
             /\ a.booking_start = b.booking_start /\ a.booking_end = b.booking_end)

\* C3: after each committed adjust the balance is >= 0, and a debit that would
\* make the balance negative is rejected and leaves the balance unchanged
AdjustKeepsBalanceNonNegative ==
  [][\A p \in Procs :
       (req'[p] # req[p] /\ req'[p].op = "adjust")
       => LET u == req'[p].user
              before == IF u \in DOMAIN db.wallets THEN db.wallets[u] ELSE 0
          IN /\ req'[p].result = "adjusted" => db'.wallets[u] >= 0
             /\ before + req'[p].total < 0
                  => (req'[p].result = "insufficient" /\ db' = db)]_vars

\* C4: under any interleaving of concurrent debits on one wallet no transaction
\* observes a negative balance
NoNegativeBalanceObserved ==
  \A u \in DOMAIN db.wallets : ~(db.wallets[u] < 0)

\* C5: the share amounts of the participant rows of a booking made by checkout
\* add up to the booking's total amount exactly
ShareConservation ==
  \A b \in 1..Len(db.bookings) :
     SumShares(SelectSeq(db.participants, LAMBDA r : r.booking_id = b))
       = db.bookings[b].total_amount

PaymentsOf(sid) == {i \in 1..Len(db.payments) : db.payments[i].provider_reference = sid}

LedgerRows(bookingId, referenceType) ==
  {i \in 1..Len(db.wtx) : /\ db.wtx[i].booking_id = bookingId
                          /\ db.wtx[i].transaction_type = referenceType}

\* C6: confirmations of one paid session made one after the other leave one
\* Booking and one Payment row, one points debit and one owner revenue credit,
\* and a call made once the Payment exists returns the booking it belongs to
SequentialConfirmIdempotent ==
  /\ \A sid \in 1..Len(sessions) :
        /\ Cardinality(PaymentsOf(sid)) <= 1
        /\ \A i \in PaymentsOf(sid) :
              LET b == db.payments[i].booking_id
              IN /\ Cardinality(LedgerRows(b, "BOOKING_REVENUE")) = 1
                 /\ Cardinality({j \in LedgerRows(b, "BOOKING_PAYMENT") :
                                    db.wtx[j].direction = "DEBIT"})
                      = IF sessions[sid].points_to_deduct > 0 THEN 1 ELSE 0
                 /\ \A j \in 1..Len(db.payments) :
                       db.payments[j].booking_id = b => j = i
  /\ \A p \in Procs :
        (req[p].op = "confirm" /\ req[p].pc = "done" /\ PaymentsOf(req[p].sess) # {})
        => /\ req[p].result \in {"confirmed", "existing"}
           /\ \A i \in PaymentsOf(req[p].sess) : req[p].b = db.payments[i].booking_id

\* C6 witness: a second confirmation has returned the booking of the first
SecondConfirmReturnedBooking ==
  \E p \in Procs :
     /\ req[p].op = "confirm" /\ req[p].result = "existing"
     /\ db.bookings[req[p].b].status = "CONFIRMED"
     /\ db.bookings[req[p].b].points_used > 0

\* C7: confirmations of one paid session that run concurrently leave one Booking
\* and one Payment row and one owner revenue credit
ConcurrentConfirmIdempotent ==
  \A sid \in 1..Len(sessions) :
     /\ Cardinality(PaymentsOf(sid)) <= 1
     /\ Cardinality({i \in 1..Len(db.wtx) :
                        /\ db.wtx[i].transaction_type = "BOOKING_REVENUE"
                        /\ \E j \in PaymentsOf(sid) :
                              db.payments[j].booking_id = db.wtx[i].booking_id}) <= 1

OwnerRows(bookingId) ==
  {i \in 1..Len(db.wtx) : db.wtx[i].booking_id = bookingId /\ db.wtx[i].user = Owner}

\* C8: a player's cancel refunds the whole total when more hours remain than the
\* cutoff, and total * pct / 100 otherwise (also at exactly the cutoff); the owner
\* is debited the refund and so keeps the rest
PlayerRefundRule ==
  \A p \in Procs :
     (req[p].op = "cancel" /\ req[p].result = "cancelled")
     => LET T == db.bookings[req[p].b].total_amount
            expected == IF req[p].hrs > policy.hours_before_start THEN T
                        ELSE (T \div 100) * policy.refund_percentage
            deductions == {i \in OwnerRows(req[p].b) :
                             db.wtx[i].transaction_type = "REFUND_DEDUCTION"}
        IN /\ req[p].refund = expected
           /\ expected > 0 => \E i \in deductions :
                                 deductions = {i} /\ db.wtx[i].amount = 0 - expected
           /\ expected = 0 => deductions = {}
           /\ (T = 4000 * LKR /\ policy = DefaultPolicy /\ req[p].hrs = 10)
                => (req[p].refund = 2000 * LKR
                    /\ SumAmounts([k \in 1..Len(db.wtx) |->
                          IF k \in OwnerRows(req[p].b) THEN db.wtx[k]
                          ELSE [amount |-> 0]]) = 2000 * LKR)

\* C8 witness: total 4000, 50% within 24h, cancelled by the player with 10h left
PartialRefundScenario ==
  \E p \in Procs :
     /\ req[p].op = "cancel" /\ req[p].result = "cancelled" /\ req[p].hrs = 10
     /\ db.bookings[req[p].b].total_amount = 4000 * LKR
     /\ policy = DefaultPolicy
     /\ req[p].refund = 2000 * LKR

\* C9: a cancel by the booking's player with no hours remaining is rejected and
\* changes no booking, participant, payment, wallet or ledger row
LatePlayerCancelRejected ==
  [][\A p \in Procs :
       (Free(p) /\ req'[p] # req[p] /\ req'[p].op = "cancel"
          /\ req'[p].b \in 1..Len(db.bookings)
          /\ db.bookings[req'[p].b].created_by = req'[p].user
          /\ db.bookings[req'[p].b].booking_start - now <= 0)
       => (req'[p].pc = "done"
           /\ req'[p].result \in {"too_late", "already_cancelled"}
           /\ db' = db)]_vars

\* C9 witness: the player's cancel of a confirmed booking was refused as too late
LateCancelRefused ==
  \E p \in Procs :
     /\ req[p].op = "cancel" /\ req[p].result = "too_late" /\ req[p].hrs <= 0
     /\ db.bookings[req[p].b].created_by = req[p].user
     /\ db.bookings[req[p].b].status = "CONFIRMED"

\* C10: a cancel by the venue owner, who is not the booking's creator, is accepted
\* (also with no hours remaining) and refunds the whole total
OwnerCancelAccepted ==
  \A p \in Procs :
     (req[p].op = "cancel" /\ req[p].pc = "done" /\ req[p].user = Owner
        /\ req[p].b \in 1..Len(db.bookings)
        /\ db.bookings[req[p].b].created_by # Owner)
     => (req[p].result \in {"cancelled", "already_cancelled"}
         /\ (req[p].result = "cancelled"
                => req[p].refund = db.bookings[req[p].b].total_amount))

\* C11: a cancel is refused as unauthorized exactly when the acting user is
\* neither the booking's creator nor the owner of its venue
CancelAuthorization ==
  \A p \in Procs :
     (req[p].op = "cancel" /\ req[p].pc = "done" /\ req[p].b \in 1..Len(db.bookings))
     => (req[p].result = "unauthorized"
         <=> req[p].user \notin {db.bookings[req[p].b].created_by, Venue.owner_id})

RefundRows(bookingId, referenceType, userId) ==
  {i \in 1..Len(db.wtx) : /\ db.wtx[i].booking_id = bookingId
                          /\ db.wtx[i].transaction_type = referenceType
                          /\ db.wtx[i].user = userId}

ConcurrentCancelSerialized ==
  /\ \A p, q \in Procs :
        (p # q /\ req[p].op = "cancel" /\ req[q].op = "cancel"
           /\ req[p].result = "cancelled" /\ req[q].result = "cancelled")
        => req[p].b # req[q].b
  /\ \A b \in 1..Len(db.bookings), u \in Users :
        /\ Cardinality(RefundRows(b, "REFUND_DEDUCTION", u)) <= 1
        /\ Cardinality(RefundRows(b, "REFUND", u)) <= 1

\* C14: once the cancellation of a booking has committed, no reschedule changes
\* the booking's interval or reports success for it
NoRescheduleOfCancelled ==
  [][/\ \A b \in 1..Len(db.bookings) :
          db.bookings[b].status = "CANCELLED"
          => /\ db'.bookings[b].booking_start = db.bookings[b].booking_start
             /\ db'.bookings[b].booking_end = db.bookings[b].booking_end
     /\ \A p \in Procs :
          (req'[p] # req[p] /\ req'[p].op = "reschedule"
             /\ req'[p].result = "rescheduled")
          => db.bookings[req'[p].b].status # "CANCELLED"]_vars

VenueBusy(d, start, end) ==
  \E i \in 1..Len(d.bookings) :
     /\ d.bookings[i].venue_id = Venue.venue_id
     /\ d.bookings[i].status \in {"CONFIRMED", "PENDING", "BLOCKED"}
     /\ d.bookings[i].booking_start < end
     /\ d.bookings[i].booking_end > start

\* C16: no request, for a court (checkout, walk-in with a sport) or venue-wide
\* (block, walk-in without one), passes a conflict check while an active booking
\* of the venue, venue-wide or made for a court, overlaps it; handled one at a
\* time, no two such bookings are ever active together
VenueWideAndCourtExclude ==
  [][/\ \A p \in Procs :
          /\ (req'[p] # req[p] /\ req'[p].pc \in {"wk_write", "co_check", "co_write"})
               => ~VenueBusy(db, req'[p].start, req'[p].end)
          /\ (req[p].pc = "cf_check" /\ req'[p].pc = "cf_write")
               => ~VenueBusy(db, sessions[req[p].sess].booking_start,
                             sessions[req[p].sess].booking_end)
     /\ Len(sessions') > Len(sessions)
          => ~VenueBusy(db, sessions'[Len(sessions')].booking_start,
                        sessions'[Len(sessions')].booking_end)
     /\ \A i, j \in 1..Len(db'.bookings) :
          (i < j /\ db'.bookings[i].status \in {"CONFIRMED", "PENDING", "BLOCKED"}
             /\ db'.bookings[j].status \in {"CONFIRMED", "PENDING", "BLOCKED"})
          => \/ db'.bookings[i].booking_end <= db'.bookings[j].booking_start
             \/ db'.bookings[j].booking_end <= db'.bookings[i].booking_start]_vars

\* C16 witness: a checkout, which asks for a court, was refused while the only
\* bookings of the venue are venue-wide blocks
CourtRequestRefusedByBlock ==
  \E p \in Procs :
     /\ req[p].op = "checkout" /\ req[p].result = "unavailable"
     /\ db.bookings # <<>>
     /\ \A i \in 1..Len(db.bookings) :
           db.bookings[i].status = "BLOCKED" /\ db.bookings[i].court_id = NoCourt

\* C17: a checkout that is admitted is recorded against a court of the venue, and
\* a checkout is refused as unavailable only if every court is taken: by a
\* venue-wide booking (walk-in or block) or by as many active bookings as courts
PerCourtAdmission ==
  \A p \in Procs :
     (req[p].op = "checkout" /\ req[p].pc = "done")
     => /\ req[p].result = "confirmed" => db.bookings[req[p].b].court_id \in Courts
        /\ req[p].result = "unavailable"
             => LET active == {i \in 1..Len(db.bookings) :
                                 db.bookings[i].status \in {"CONFIRMED", "PENDING", "BLOCKED"}}
                IN \/ \E i \in active : db.bookings[i].total_amount = 0
                   \/ Cardinality(active) >= Cardinality(Courts)

OtherBusy(d, bookingId, start, end) ==
  \E i \in 1..Len(d.bookings) :
     /\ i # bookingId
     /\ d.bookings[i].venue_id = d.bookings[bookingId].venue_id
     /\ d.bookings[i].status \in {"CONFIRMED", "PENDING", "BLOCKED"}
     /\ d.bookings[i].booking_start < end
     /\ d.bookings[i].booking_end > start

\* C18: the conflict check of a reschedule passes iff no other active booking
\* overlaps the new interval, whether or not the booking's own interval does;
\* when it passes the booking gets the new interval, otherwise it is refused as
\* unavailable and nothing changes
RescheduleExcludesSelf ==
  [][\A p \in Procs :
       /\ (req[p].pc = "rs_check" /\ req'[p] # req[p])
            => IF OtherBusy(db, req[p].b, req[p].start, req[p].end)
               THEN req'[p].result = "unavailable" /\ db' = db
               ELSE req'[p].pc = "rs_write"
       /\ (req[p].pc = "rs_write" /\ req'[p] # req[p])
            => /\ req'[p].result = "rescheduled"
               /\ db'.bookings[req[p].b].booking_start = req[p].start
               /\ db'.bookings[req[p].b].booking_end = req[p].end]_vars

\* C18 witness: the check has passed for a new interval that overlaps the
\* booking's own current interval
ShiftOntoOwnInterval ==
  \E p \in Procs :
     /\ req[p].pc = "rs_write"
     /\ db.bookings[req[p].b].booking_start # req[p].start
     /\ db.bookings[req[p].b].booking_start < req[p].end
     /\ db.bookings[req[p].b].booking_end > req[p].start

\* C19: a reschedule that succeeds changes the interval of its booking and
\* nothing else (no status, amount, participant, payment, wallet or ledger row),
\* and a reschedule that fails changes nothing
RescheduleFrame ==
  [][\A p \in Procs :
       (req'[p] # req[p] /\ req'[p].op = "reschedule")
       => IF req'[p].result = "rescheduled"
          THEN LET b == req'[p].b
               IN /\ db'.participants = db.participants
                  /\ db'.payments = db.payments
                  /\ db'.wallets = db.wallets
                  /\ db'.wtx = db.wtx
                  /\ Len(db'.bookings) = Len(db.bookings)
                  /\ \A i \in 1..Len(db.bookings) :
                        i # b => db'.bookings[i] = db.bookings[i]
                  /\ [db'.bookings[b] EXCEPT !.booking_start = 0, !.booking_end = 0]
                       = [db.bookings[b] EXCEPT !.booking_start = 0, !.booking_end = 0]
          ELSE db' = db]_vars

\* C19 witness: a paid, confirmed booking has been moved to 10:00
PaidBookingMoved ==
  \E p \in Procs :
     /\ req[p].op = "reschedule" /\ req[p].result = "rescheduled"
     /\ db.bookings[req[p].b].booking_start = 34
     /\ db.bookings[req[p].b].status = "CONFIRMED"
     /\ \E i \in 1..Len(db.payments) : db.payments[i].booking_id = req[p].b
     /\ \E i \in 1..Len(db.wtx) : db.wtx[i].booking_id = req[p].b

\* C20: a reschedule accepts a date, time and duration exactly when a checkout
\* accepts them (15-minute steps, start in 07:00-22:00, end by 22:00, duration
\* of 1 to 15 hours, start strictly in the future)
RescheduleValidatesAsCheckout ==
  \A p \in Procs :
     (req[p].op = "validate" /\ req[p].pc = "done")
     => (req[p].result = "valid" <=> req[p].kind = "valid")

\* C21: a checkout request whose time is off the quarter hour, starts outside
\* 07:00-22:00, ends after 22:00, lasts less than 1 or more than 15 hours, or
\* does not start strictly in the future is rejected at once, with no session
\* created and no booking, participant, payment, wallet or ledger row changed
CheckoutRejectsInvalidTime ==
  [][\A p \in Procs :
       (Free(p) /\ req'[p] # req[p] /\ req'[p].op = "checkout")
       => LET r == req'[p]
              minuteOfDay == (r.start % 24) * 60 + r.minutes
              valid == /\ r.minutes \in {0, 15, 30, 45}
                       /\ minuteOfDay >= 7 * 60 /\ minuteOfDay < 22 * 60
                       /\ minuteOfDay + r.hrs * 60 <= 22 * 60
                       /\ r.hrs >= 1 /\ r.hrs <= 15
                       /\ r.start * 60 + r.minutes > now * 60
          IN ~valid => /\ r.pc = "done"
                       /\ r.result \in {"invalid", "missing"}
                       /\ db' = db
                       /\ sessions' = sessions]_vars

\* C21 witness: with a booking stored, a well-formed request for 09:00 was
\* rejected because 09:00 had come
PastCheckoutRejected ==
  \E p \in Procs :
     /\ req[p].op = "checkout" /\ req[p].result = "invalid"
     /\ req[p].start = 33 /\ req[p].minutes = 0 /\ req[p].hrs = 2
     /\ now >= 33
     /\ Len(db.bookings) > 0

\* C22: a fully ledger-funded checkout that succeeds debits the requester by the
\* total, credits the venue owner by the total and stores one CONFIRMED booking
\* with a participant row for the requester and for every invitee; one whose
\* conflict re-check or transaction fails changes nothing
LedgerCheckoutAllOrNothing ==
  [][\A p \in Procs :
       /\ (req[p].pc = "co_check" /\ req'[p].pc = "done") => db' = db
       /\ (req[p].pc = "co_write" /\ req'[p] # req[p])
            => IF req'[p].result = "confirmed"
               THEN LET r == req[p]
                        b == req'[p].b
                        ownerBefore == IF Owner \in DOMAIN db.wallets
                                       THEN db.wallets[Owner] ELSE 0
                        rows == {i \in 1..Len(db'.participants) :
                                   db'.participants[i].booking_id = b}
                    IN /\ db'.wallets[r.user] = db.wallets[r.user] - r.total
                       /\ db'.wallets[Owner] = ownerBefore + r.total
                       /\ b = Len(db.bookings) + 1 /\ Len(db'.bookings) = b
                       /\ \A i \in 1..Len(db.bookings) : db'.bookings[i] = db.bookings[i]
                       /\ db'.bookings[b].status = "CONFIRMED"
                       /\ db'.bookings[b].created_by = r.user
                       /\ db'.bookings[b].booking_start = r.start
                       /\ db'.bookings[b].booking_end = r.end
                       /\ db'.bookings[b].total_amount = r.total
                       /\ Cardinality(rows) = 1 + Cardinality(r.invites)
                       /\ \E i \in rows : /\ db'.participants[i].user_id = r.user
                                           /\ db'.participants[i].is_initiator = 1
                                           /\ db'.participants[i].payment_status = "PAID"
                       /\ \A u \in r.invites \cap Users :
                             \E i \in rows : db'.participants[i].user_id = u
               ELSE req'[p].result = "failed" /\ db' = db]_vars

\* C22 witness: one checkout with two invitees was confirmed and another was
\* rolled back
LedgerCheckoutBothWays ==
  \E p, q \in Procs :
     /\ req[p].op = "checkout" /\ req[p].result = "confirmed"
     /\ Cardinality({i \in 1..Len(db.participants) :
                        db.participants[i].booking_id = req[p].b}) = 3
     /\ req[q].op = "checkout" /\ req[q].result = "failed"
     /\ Len(db.bookings) = 1

\* C23: starting an externally funded checkout (with or without points) only
\* creates the provider's session; bookings, participants, payments, wallets
\* and the ledger change only when a confirmation of a paid session, or a
\* fully ledger-funded checkout, commits
ExternalCheckoutWritesNothing ==
  [][/\ \A p \in Procs :
          (req'[p] # req[p] /\ req'[p].op = "checkout"
             /\ req'[p].result = "checkoutUrl")
          => /\ db' = db
             /\ Len(sessions') = Len(sessions) + 1
             /\ req'[p].sess = Len(sessions')
             /\ ~sessions'[req'[p].sess].paid
     /\ db' # db
          => \E p \in Procs :
                /\ req'[p].result = "confirmed"
                /\ \/ req[p].pc = "co_write"
                   \/ req[p].pc = "cf_write" /\ sessions[req[p].sess].paid]_vars

\* C23 witness: p2's checkout with part of the price in points has been paid at
\* the provider and not yet confirmed; nothing is stored and no wallet has moved
PaidSessionNothingStored ==
  \E p \in Procs :
     /\ req[p].op = "checkout" /\ req[p].result = "checkoutUrl"
     /\ sessions[req[p].sess].points_to_deduct > 0
     /\ sessions[req[p].sess].paid
     /\ db = [EmptyDb EXCEPT !.wallets = InitialWallets]

\* C24: when an active booking overlaps the interval of a paid session, the
\* confirmation of that session ends with the slot-taken conflict outcome and
\* writes no booking, participant, payment, wallet or ledger row
ConfirmRefusesTakenSlot ==
  [][\A p \in Procs :
       (req[p].pc = "cf_check" /\ req'[p] # req[p])
       => LET m == sessions[req[p].sess]
              taken == \E i \in 1..Len(db.bookings) :
                          /\ db.bookings[i].venue_id = Venue.venue_id
                          /\ db.bookings[i].status \in {"CONFIRMED", "PENDING", "BLOCKED"}
                          /\ db.bookings[i].booking_start < m.booking_end
                          /\ db.bookings[i].booking_end > m.booking_start
          IN taken => /\ req'[p].pc = "done"
                      /\ req'[p].result = "slot_taken"
                      /\ db' = db]_vars

\* C24 witness: p2's paid session was refused because p1 had booked the slot in
\* the meantime; p2's points are untouched
PaidSessionRefused ==
  \E p \in Procs :
     /\ req[p].op = "confirm" /\ req[p].result = "slot_taken"
     /\ sessions[req[p].sess].paid
     /\ sessions[req[p].sess].user_id = "p2"
     /\ Len(db.bookings) = 1 /\ db.bookings[1].created_by = "p1"
     /\ db.wallets["p2"] = InitialWallets["p2"]
     /\ Len(db.payments) = 1

\* C25: a confirmation of a paid session that has passed the idempotency and
\* payment checks ends either with the booking CONFIRMED or with the slot-taken
\* outcome
PaidConfirmationResolved ==
  [][\A p \in Procs :
       (req[p].pc \in {"cf_check", "cf_write"} /\ req'[p].pc = "done")
       => req'[p].result \in {"confirmed", "slot_taken"}]_vars

LedgerSum(userId) ==
  SumAmounts(SelectSeq(db.wtx, LAMBDA r : r.user = userId))

\* C26: when no request is in progress, the balance of every wallet is its
\* opening balance plus the signed amounts of its ledger rows
LedgerMatchesBalances ==
  (\A p \in Procs : req[p].pc \in {"idle", "done"})
  => \A u \in DOMAIN db.wallets :
        db.wallets[u] = (IF u \in DOMAIN InitialWallets THEN InitialWallets[u] ELSE 0)
                        + LedgerSum(u)

\* C27: a ledger row, once written, is never changed or removed
LedgerAppendOnly ==
  [][/\ Len(db'.wtx) >= Len(db.wtx)
     /\ \A i \in 1..Len(db.wtx) : db'.wtx[i] = db.wtx[i]]_vars

InviteeRows(bookingId) ==
  {i \in 1..Len(db.participants) : /\ db.participants[i].booking_id = bookingId
                                   /\ db.participants[i].is_initiator = 0}

ReimbursementCredits(bookingId) ==
  SumAmounts(SelectSeq(db.wtx, LAMBDA r : /\ r.booking_id = bookingId
                                          /\ r.transaction_type = "BOOKING_REIMBURSEMENT"
                                          /\ r.direction = "CREDIT"))

\* C28: in a split booking of total 6000 with two invitees each share is 2000;
\* once exactly one invitee has paid, the initiator has received no reimbursement
\* credit, and once both have paid the credits add up to 4000
SplitScenario ==
  \A b \in 1..Len(db.bookings) :
     (db.bookings[b].total_amount = 6000 * LKR /\ Cardinality(InviteeRows(b)) = 2)
     => LET paid == {i \in InviteeRows(b) : db.participants[i].payment_status = "PAID"}
        IN /\ \A i \in InviteeRows(b) : db.participants[i].share_amount = 2000 * LKR
           /\ Cardinality(paid) = 1 => ReimbursementCredits(b) = 0
           /\ Cardinality(paid) = 2 => ReimbursementCredits(b) = 4000 * LKR

\* C29: a wallet-funded share payment whose debit of the payer has been committed
\* ends with the payer's participant row PAID and the initiator's wallet credited
\* by the amount paid
SettlementAtomic ==
  [][\A p \in Procs :
       (req[p].pc \in {"ps_tx", "ps_reimb"} /\ req'[p].pc = "done")
       => /\ \E i \in 1..Len(db'.participants) :
                /\ db'.participants[i].booking_id = req[p].b
                /\ db'.participants[i].user_id = req[p].user
                /\ db'.participants[i].payment_status = "PAID"
          /\ \E i \in 1..Len(db.participants) :
                /\ db.participants[i].booking_id = req[p].b
                /\ db.participants[i].is_initiator = 1
                /\ db'.wallets[db.participants[i].user_id]
                     = db.wallets[db.participants[i].user_id] + req[p].total]_vars

\* C30: the refund of a player's cancel is the full amount when more hours
\* remain than the booking's custom hours-before-start, and the booking's custom
\* refund percentage of it otherwise; a booking without custom values uses the
\* values of its policy row
CancelUsesBookingSnapshot ==
  [][\A p \in Procs :
       (/\ req'[p] # req[p] /\ req'[p].op = "cancel" /\ req'[p].pc = "ca_txn"
        /\ req'[p].user = db.bookings[req'[p].b].created_by)
       => LET b == db.bookings[req'[p].b]
              custom == /\ b.custom_refund_percentage # NoCustom
                        /\ b.custom_hours_before_start # NoCustom
              pct == IF custom THEN b.custom_refund_percentage
                     ELSE policy.refund_percentage
              hrs == IF custom THEN b.custom_hours_before_start
                     ELSE policy.hours_before_start
          IN req'[p].refund = IF b.booking_start - now > hrs THEN b.total_amount
                              ELSE (b.total_amount \div 100) * pct]_vars

NewLedgerRows == SubSeq(db'.wtx, Len(db.wtx) + 1, Len(db'.wtx))

\* C31: a successful cancel with refund R credits every non-initiator participant
\* who had PAID their share scaled by the effective refund percentage, credits
\* the creator R minus those credits, writes REFUND credits that add up to R, and
\* debits the owner's wallet exactly R under REFUND_DEDUCTION, in one commit
CancelRefundDistribution ==
  [][\A p \in Procs :
       (req[p].pc = "ca_txn" /\ req'[p].pc = "done" /\ req'[p].result = "cancelled")
       => LET b == req[p].b
              R == req[p].refund
              creator == db.bookings[b].created_by
              k == IF req[p].hrs > policy.hours_before_start THEN 100
                   ELSE policy.refund_percentage
              paidOthers == {i \in 1..Len(db.participants) :
                               /\ db.participants[i].booking_id = b
                               /\ db.participants[i].is_initiator = 0
                               /\ db.participants[i].payment_status = "PAID"}
              refunds == SelectSeq(NewLedgerRows,
                            LAMBDA r : /\ r.transaction_type = "REFUND"
                                       /\ r.direction = "CREDIT" /\ r.booking_id = b)
              toOthers == SelectSeq(refunds, LAMBDA r : r.user # creator)
              deductions == SelectSeq(NewLedgerRows,
                               LAMBDA r : r.transaction_type = "REFUND_DEDUCTION")
          IN /\ \A i \in paidOthers :
                   LET u == db.participants[i].user_id
                       share == Percent(db.participants[i].share_amount, k)
                   IN /\ db'.wallets[u] = db.wallets[u] + share
                      /\ \E j \in 1..Len(toOthers) :
                            toOthers[j].user = u /\ toOthers[j].amount = share
             /\ Len(toOthers) = Cardinality(paidOthers)
             /\ db'.wallets[creator] = db.wallets[creator] + R - SumAmounts(toOthers)
             /\ SumAmounts(refunds) = R
             /\ db'.wallets[Owner] = db.wallets[Owner] - R
             /\ SumAmounts(deductions) = 0 - R
             /\ \A j \in 1..Len(deductions) :
                   deductions[j].user = Owner /\ deductions[j].direction = "DEBIT"
             /\ R > 0 => Len(deductions) = 1
             /\ Len(NewLedgerRows) = Len(refunds) + Len(deductions)]_vars

\* C31 witness: p1's booking of 6000 was cancelled at half refund after p2 had
\* paid the share of 2000: p2 got 1000, p1 2000 and the owner was debited 3000
CancelAfterSharePaid ==
  \E p \in Procs :
     /\ req[p].op = "cancel" /\ req[p].result = "cancelled"
     /\ req[p].refund = 3000 * LKR
     /\ \E i, j, k \in 1..Len(db.wtx) :
           /\ db.wtx[i].user = "p2" /\ db.wtx[i].transaction_type = "REFUND"
           /\ db.wtx[i].amount = 1000 * LKR
           /\ db.wtx[j].user = "p1" /\ db.wtx[j].transaction_type = "REFUND"
           /\ db.wtx[j].amount = 2000 * LKR
           /\ db.wtx[k].user = Owner /\ db.wtx[k].transaction_type = "REFUND_DEDUCTION"
           /\ db.wtx[k].amount = 0 - 3000 * LKR

\* C32: a committed cancel leaves the booking CANCELLED with its cancellation
\* time set, and every participant row and payment row of the booking REFUNDED
\* when the refund is positive and CANCELLED when it is zero
CancelMarksRows ==
  [][\A p \in Procs :
       (req[p].pc = "ca_txn" /\ req'[p].pc = "done" /\ req'[p].result = "cancelled")
       => LET b == req[p].b
              mark == IF req[p].refund > 0 THEN "REFUNDED" ELSE "CANCELLED"
          IN /\ db'.bookings[b].status = "CANCELLED"
             /\ db'.bookings[b].cancelled
             /\ \A i \in 1..Len(db'.participants) :
                   db'.participants[i].booking_id = b
                   => db'.participants[i].payment_status = mark
             /\ \A i \in 1..Len(db'.payments) :
                   db'.payments[i].booking_id = b => db'.payments[i].status = mark]_vars

\* C33: the price is base price * duration * m, where a rule applies iff its
\* day set is empty or holds the booking's weekday and the start hour is in
\* [start_hour, end_hour), and m is the greatest multiplier of the applicable
\* rules, 1.0 only when none applies
PriceIsMaxApplicableMultiplier ==
  \A p \in Procs :
     (req[p].op = "price" /\ req[p].result = "priced")
     => LET day == (req[p].start \div 24) % 7
            hour == req[p].start % 24
            applicable == {r \in db.pricing_rules :
                             /\ (r.days_of_week = {} \/ day \in r.days_of_week)
                             /\ r.start_hour <= hour /\ hour < r.end_hour}
            m == IF applicable = {} THEN 100
                 ELSE CHOOSE x \in {r.multiplier : r \in applicable} :
                        \A r \in applicable : r.multiplier <= x
        IN req[p].total = ((Venue.price_per_hour * req[p].hrs) \div 100) * m

TransientErrorsRetried ==
  \A p \in Procs : req[p].result = "store_error" => req[p].attempts > 1

RECURSIVE WalletSum(_)
WalletSum(w) ==
  IF DOMAIN w = {} THEN 0
  ELSE LET u == CHOOSE x \in DOMAIN w : TRUE
       IN w[u] + WalletSum([x \in DOMAIN w \ {u} |-> w[x]])

(* what confirmations of external payments brought in: the revenue credited *)
(* to the owner less the points debited from the payer                      *)
ExternalInflow ==
  SumAmounts(SelectSeq(db.wtx,
     LAMBDA r : \/ r.transaction_type = "BOOKING_REVENUE"
                \/ (r.transaction_type = "BOOKING_PAYMENT" /\ r.direction = "DEBIT"
                      /\ r.booking_id # 0)))

\* C36: when no request is in progress, the wallet balances add up to their
\* opening sum plus, for every confirmed external payment, the booking total
\* less the points used: ledger-funded checkouts, wallet-funded share payments
\* and cancels have moved points without creating or destroying any
PointsConserved ==
  (\A p \in Procs : req[p].pc \in {"idle", "done"})
  => WalletSum(db.wallets) = WalletSum(InitialWallets) + ExternalInflow

ShareLedgerRows(bookingId, type) ==
  {i \in 1..Len(db.wtx) :
     db.wtx[i].booking_id = bookingId /\ db.wtx[i].transaction_type = type}

ShareSettledAtMostOnce ==
  \A b \in 1..Len(db.bookings) :
     /\ \A u \in Players :
          Cardinality({i \in ShareLedgerRows(b, "BOOKING_SPLIT_PAYMENT") :
                         db.wtx[i].user = u}) <= 1
     /\ Cardinality(ShareLedgerRows(b, "BOOKING_REIMBURSEMENT"))
          <= Cardinality({j \in 1..Len(db.participants) :
                            /\ db.participants[j].booking_id = b
                            /\ db.participants[j].is_initiator = 0})

\* C39: once a booking is CANCELLED no share of it is settled: a paySplitShare
\* for it is rejected, no split-payment debit or reimbursement credit for it
\* is added to the ledger, and none of its participants becomes PAID
NoSettlementAfterCancel ==
  [][\A b \in 1..Len(db.bookings) :
       db.bookings[b].status = "CANCELLED" =>
         /\ \A p \in Procs :
              (Free(p) /\ req'[p] # req[p] /\ req'[p].op = "payshare" /\ req'[p].b = b)
              => (req'[p].pc = "done" /\ req'[p].result \notin {"paid", "checkoutUrl"})
         /\ \A i \in 1..Len(NewLedgerRows) :
              NewLedgerRows[i].booking_id = b
              => NewLedgerRows[i].transaction_type
                   \notin {"BOOKING_SPLIT_PAYMENT", "BOOKING_REIMBURSEMENT"}
         /\ \A j \in 1..Len(db.participants) :
              (/\ j <= Len(db'.participants)
               /\ db.participants[j].booking_id = b
               /\ db'.participants[j].payment_status = "PAID")
              => db.participants[j].payment_status = "PAID"]_vars

\* C40: a booking confirmed by a ledger-funded checkout has exactly one payment
\* row, and that row's status is SUCCEEDED
LedgerCheckoutPaymentSucceeded ==
  \A b \in 1..Len(db.bookings) :
     (db.bookings[b].status = "CONFIRMED" /\ db.bookings[b].points_used > 0
        /\ db.bookings[b].points_used = db.bookings[b].total_amount)
     => /\ Cardinality({i \in 1..Len(db.payments) : db.payments[i].booking_id = b}) = 1
        /\ \A i \in 1..Len(db.payments) :
              db.payments[i].booking_id = b => db.payments[i].status = "SUCCEEDED"

====
